---------------------------- MODULE Spec2Model ----------------------------
(***************************************************************************)
(* Model of backend/pii_detector.py: the span merge (_merge_entities), the *)
(* detection API (detect_pii) and the redaction (redact_pii).              *)
(*                                                                         *)
(* Scores are held in hundredths (0.70 is 70), texts are sequences of      *)
(* one-character strings, and an entity is a record with the keys of the   *)
(* source's dict (a dict that lacks a key is a record without that field). *)
(***************************************************************************)
EXTENDS Integers, Sequences, FiniteSets, TLC

VARIABLES
    pc,                      \* "call" before the operation ran, "done" after it
    op,                      \* the operation of the behaviour
    text,                    \* the text argument: [type |-> Python type, value |-> characters]
    replace_with,            \* redact_pii: the replacement token
    preserve_last_n,         \* redact_pii: entity type -> characters to keep
    AWS_COMPREHEND_ENABLED,  \* module configuration, read at import
    _spacy_available,        \* module configuration: spaCy and a model were loaded
    comprehend_resp,         \* what the Comprehend client does when it is called
    spacy_resp,              \* what the spaCy model does when it is called
    primary,                 \* _merge_entities: first argument (detect_pii: regex_entities)
    secondary,               \* _merge_entities: second argument (detect_pii: comprehend + spaCy)
    merged,                  \* _merge_entities: the list returned
    ran,                     \* the detectors the call invoked
    raised,                  \* the exception the operation raised, "" when it returned
    report,                  \* detect_pii: the report returned
    redacted,                \* redact_pii: the redacted text returned
    entities,                \* _redact_spanwise: the entities argument
    todo,                    \* _redact_spanwise: the sorted entities the loop has yet to visit
    pieces,                  \* _redact_spanwise: the pieces appended so far
    last,                    \* _redact_spanwise: the cursor
    history,                 \* the calls of detect_pii and redact_pii made so far, oldest first
    texts,                   \* detect_pii_batch: the texts argument
    batch_resp,              \* detect_pii_batch: what the external detectors do on each text
    reports,                 \* detect_pii_batch: the list returned
    record,                  \* process_s3_event_and_transcribe: the S3 event record
    use_realtime_threshold,  \* its threshold argument, None or a number of bytes
    wait_for_transform_completion,
    _BOTO3_AVAILABLE,        \* whisper.py: module-level configuration
    SAGEMAKER_ENDPOINT,
    SAGEMAKER_TRANSFORM_ROLE,
    TRANSFORM_OUTPUT_BUCKET,
    MAX_REALTIME_BYTES,
    aws,                     \* the size of the object and what the AWS requests do
    requests,                \* the AWS requests sent, in order
    result,                  \* the dict returned
    _USE_ST_MODEL,           \* embedding.py: a sentence-transformers model was loaded
    _USE_OPENAI,             \* embedding.py: the openai package and an API key were found
    EMBEDDING_DIM,           \* embedding.py: the module-level dimension
    advertised,              \* EMBEDDING_DIM as it was when the import finished
    st_dim,                  \* the length of the vectors of the sentence-transformers model
    openai_dim,              \* the length of the vectors of the OpenAI embedding model
    embed_op,                \* the last call made: embed or embed_batch
    embed_arg,               \* its argument
    embed_out,               \* the vectors it returned
    first_embed,             \* for each text, the vector of the first call of embed on it
    _faiss_available,        \* indexer.py: faiss was imported
    vi_dim,                  \* VectorIndex.dim
    vi_ids,                  \* VectorIndex.ids
    vi_meta,                 \* VectorIndex.meta
    vi_vectors,              \* VectorIndex.vectors: None or the rows
    vi_faiss_index,          \* VectorIndex.faiss_index: None or the rows of the faiss index
    vi_use_faiss,            \* VectorIndex.use_faiss
    disk,                    \* the files under the base path of the index
    added,                   \* the items added so far, in order, those of the saved index included
    vi_call,                 \* the last call on the index, its arguments, locals and result
    handlers,                \* routes.py: the handlers module was imported
    routes_BOTO3_AVAILABLE,  \* routes.py: _BOTO3_AVAILABLE
    S3_INPUT_BUCKET,         \* routes.py: the input bucket, None when not configured
    TRANSFORM_INPUT_BUCKET,  \* handlers.py: the input bucket, None when not configured
    STATE_MACHINE_ARN,       \* handlers.py: the state machine, None when not configured
    sf_handlers,             \* handlers.py: step_fn_handlers was imported
    whisper_module,          \* handlers.py: whisper was imported
    s3_objects,              \* the objects uploaded to S3, each with the request it came from
    executions,              \* the workflows started, each with the request it came from
    upload_log,              \* the requests to /upload and their responses, in order
    retry_tries,             \* tries
    initial_delay,           \* initial_delay, in half seconds
    max_delay,               \* max_delay, in half seconds
    delay,                   \* wrapped: delay
    attempt,                 \* wrapped: attempt, 0 before the loop
    last_exc,                \* wrapped: last_exc
    events,                  \* the calls of f with their outcomes and the sleeps, in order
    retry_out,               \* None while the loop runs, then what wrapped returned or raised
    stepfn_BOTO3_AVAILABLE,  \* step_fn_handlers.py: _BOTO3_AVAILABLE
    OUTPUT_S3_BUCKET,        \* step_fn_handlers.py: the output bucket, None when not configured
    sf_event,                \* the event of the invocation, None before it
    sf_pc,                   \* "idle" before the invocation, "loop" in the polling loop, then "done"
    elapsed,                 \* wait_for_transform_callback: time.time() - start_time
    wait_attempt,            \* wait_for_transform_callback: attempt
    polls,                   \* the iterations of the loop that polled
    callbacks,               \* the send_task_success and send_task_failure calls, in order, delivered or not
    sf_out                   \* None while the handler runs, then what it returned or raised

vars == <<pc, op, text, replace_with, preserve_last_n, AWS_COMPREHEND_ENABLED,
          _spacy_available, comprehend_resp, spacy_resp, primary, secondary,
          merged, ran, raised, report, redacted, entities, todo, pieces, last,
          history, texts, batch_resp, reports,
          record, use_realtime_threshold, wait_for_transform_completion,
          _BOTO3_AVAILABLE, SAGEMAKER_ENDPOINT, SAGEMAKER_TRANSFORM_ROLE,
          TRANSFORM_OUTPUT_BUCKET, MAX_REALTIME_BYTES, aws, requests, result,
          _USE_ST_MODEL, _USE_OPENAI, EMBEDDING_DIM, advertised, st_dim, openai_dim, embed_op, embed_arg, embed_out, first_embed,
          _faiss_available, vi_dim, vi_ids, vi_meta, vi_vectors, vi_faiss_index, vi_use_faiss, disk, added, vi_call,
          handlers, routes_BOTO3_AVAILABLE, S3_INPUT_BUCKET, TRANSFORM_INPUT_BUCKET, STATE_MACHINE_ARN, sf_handlers, whisper_module, s3_objects, executions, upload_log,
          retry_tries, initial_delay, max_delay, delay, attempt, last_exc, events, retry_out,
          stepfn_BOTO3_AVAILABLE, OUTPUT_S3_BUCKET, sf_event, sf_pc, elapsed, wait_attempt, polls, callbacks, sf_out>>

\* the locals of the loop of _redact_spanwise
loopVars == <<entities, todo, pieces, last>>

\* the record of the calls made
callVars == <<history>>

\* the argument, the environment and the result of detect_pii_batch
batchVars == <<texts, batch_resp, reports>>

\* the arguments, the configuration, the environment and the result of
\* process_s3_event_and_transcribe
routeVars == <<record, use_realtime_threshold, wait_for_transform_completion,
               _BOTO3_AVAILABLE, SAGEMAKER_ENDPOINT, SAGEMAKER_TRANSFORM_ROLE,
               TRANSFORM_OUTPUT_BUCKET, MAX_REALTIME_BYTES, aws, requests, result>>

----------------------------------------------------------------------------
(* The variables of the other modules *)

\* None, and a value that is not None
None == [none |-> TRUE]
Some(v) == [value |-> v]

\* the configuration, the providers and the calls of embedding.py
embedVars == <<_USE_ST_MODEL, _USE_OPENAI, EMBEDDING_DIM, advertised, st_dim, openai_dim, embed_op, embed_arg, embed_out, first_embed>>

\* embedding.py is not in use
EmbedIdle ==
    /\ _USE_ST_MODEL = FALSE
    /\ _USE_OPENAI = FALSE
    /\ EMBEDDING_DIM = 0
    /\ advertised = 0
    /\ st_dim = 0
    /\ openai_dim = 0
    /\ embed_op = "none"
    /\ embed_arg = <<>>
    /\ embed_out = <<>>
    /\ first_embed = <<>>

\* a VectorIndex, its files and the last call on it
indexVars == <<_faiss_available, vi_dim, vi_ids, vi_meta, vi_vectors, vi_faiss_index, vi_use_faiss, disk, added, vi_call>>

\* indexer.py is not in use
IndexIdle ==
    /\ _faiss_available = FALSE
    /\ vi_dim = None
    /\ vi_ids = <<>>
    /\ vi_meta = <<>>
    /\ vi_vectors = None
    /\ vi_faiss_index = None
    /\ vi_use_faiss = FALSE
    /\ disk = None
    /\ added = <<>>
    /\ vi_call = None

\* the configuration of routes.py and handlers.py, S3, Step Functions and the requests served
uploadVars == <<handlers, routes_BOTO3_AVAILABLE, S3_INPUT_BUCKET, TRANSFORM_INPUT_BUCKET, STATE_MACHINE_ARN, sf_handlers, whisper_module, s3_objects, executions, upload_log>>

\* routes.py is not in use
UploadIdle ==
    /\ handlers = FALSE
    /\ routes_BOTO3_AVAILABLE = FALSE
    /\ S3_INPUT_BUCKET = None
    /\ TRANSFORM_INPUT_BUCKET = None
    /\ STATE_MACHINE_ARN = None
    /\ sf_handlers = FALSE
    /\ whisper_module = FALSE
    /\ s3_objects = <<>>
    /\ executions = <<>>
    /\ upload_log = <<>>

\* a call of a function wrapped by retry_on_exception
retryVars == <<retry_tries, initial_delay, max_delay, delay, attempt, last_exc, events, retry_out>>

\* retry_on_exception of whisper.py is not in use
RetryIdle ==
    /\ retry_tries = 0
    /\ initial_delay = 0
    /\ max_delay = 0
    /\ delay = 0
    /\ attempt = 0
    /\ last_exc = None
    /\ events = <<>>
    /\ retry_out = None

\* the configuration of step_fn_handlers.py and the invocation of one of its handlers
stepfnVars == <<stepfn_BOTO3_AVAILABLE, OUTPUT_S3_BUCKET, sf_event, sf_pc, elapsed, wait_attempt, polls, callbacks, sf_out>>

\* step_fn_handlers.py is not in use
StepfnIdle ==
    /\ stepfn_BOTO3_AVAILABLE = FALSE
    /\ OUTPUT_S3_BUCKET = None
    /\ sf_event = None
    /\ sf_pc = "idle"
    /\ elapsed = 0
    /\ wait_attempt = 0
    /\ polls = 0
    /\ callbacks = <<>>
    /\ sf_out = None

\* the variables of the modules other than pii_detector.py and whisper.py
moduleVars == <<embedVars, indexVars, uploadVars, retryVars, stepfnVars>>

\* none of them is in use
ModulesIdle == EmbedIdle /\ IndexIdle /\ UploadIdle /\ RetryIdle /\ StepfnIdle

\* the variables of the modules other than embedding.py
notEmbedVars == <<indexVars, uploadVars, retryVars, stepfnVars>>
NotEmbedIdle == IndexIdle /\ UploadIdle /\ RetryIdle /\ StepfnIdle

\* the variables of the modules other than indexer.py and embedding.py
notIndexVars == <<uploadVars, retryVars, stepfnVars>>
NotIndexIdle == UploadIdle /\ RetryIdle /\ StepfnIdle

\* the variables of the modules other than routes.py
notUploadVars == <<embedVars, indexVars, retryVars, stepfnVars>>
NotUploadIdle == EmbedIdle /\ IndexIdle /\ RetryIdle /\ StepfnIdle

\* the variables of the modules other than retry_on_exception of whisper.py
notRetryVars == <<embedVars, indexVars, uploadVars, stepfnVars>>
NotRetryIdle == EmbedIdle /\ IndexIdle /\ UploadIdle /\ StepfnIdle

\* the variables of the modules other than step_fn_handlers.py
notStepfnVars == <<embedVars, indexVars, uploadVars, retryVars>>
NotStepfnIdle == EmbedIdle /\ IndexIdle /\ UploadIdle /\ RetryIdle

----------------------------------------------------------------------------
(* Bounds of the model *)

\* offsets of candidate spans range over 0..MaxOff
MaxOff == 3
\* a direct call of _merge_entities gets at most MaxPrimary primary candidates
MaxPrimary == 2
\* generated texts have at most MaxLen characters
MaxLen == 3

----------------------------------------------------------------------------
(* Sequence helpers *)

\* sequences over S of length 0..n
SeqsUpTo(S, n) == UNION { [1..k -> S] : k \in 0..n }

RECURSIVE FlattenSeq(_)
FlattenSeq(seqs) ==
    IF seqs = <<>> THEN <<>> ELSE Head(seqs) \o FlattenSeq(Tail(seqs))

----------------------------------------------------------------------------
(* _merge_entities *)

\* lines 186-189: setdefault adds score/start/end only where the key is missing
Normalize(c) ==
    [f \in DOMAIN c \cup {"score", "start", "end"} |->
        IF f \in DOMAIN c THEN c[f] ELSE 0]

\* variants of the sort key: the shorter span first, the lower score first
KeyShorterFirst(x) == << -x.score, x.end - x.start, x.start >>
KeyLowerScoreFirst(x) == << x.score, -(x.end - x.start), x.start >>

\* line 192: the sort key (-score, -(end - start), start)
SortKey(x) == << -x.score, -(x.end - x.start), x.start >>

\* variant of the comparison: the third component of the key is ignored
KeyLessNoStart(a, b) ==
    \/ a[1] < b[1]
    \/ a[1] = b[1] /\ a[2] < b[2]

\* tuple comparison of two sort keys, as Python compares tuples
KeyLess(a, b) ==
    \/ a[1] < b[1]
    \/ a[1] = b[1] /\ a[2] < b[2]
    \/ a[1] = b[1] /\ a[2] = b[2] /\ a[3] < b[3]

\* list.sort is stable: an element goes after every element whose key is not greater
RECURSIVE InsertByKey(_, _)
InsertByKey(sorted, x) ==
    IF sorted = <<>> THEN <<x>>
    ELSE IF KeyLess(SortKey(x), SortKey(Head(sorted)))
         THEN <<x>> \o sorted
         ELSE <<Head(sorted)>> \o InsertByKey(Tail(sorted), x)

RECURSIVE SortCandidates(_)
SortCandidates(cands) ==
    IF cands = <<>> THEN <<>>
    ELSE InsertByKey(SortCandidates(SubSeq(cands, 1, Len(cands) - 1)),
                     cands[Len(cands)])

\* variant of the overlap test: ranges that only touch count as overlapping
OverlapClosed(s, e, os, oe) == ~(e < os \/ s > oe)

\* line 204: ranges intersect
Overlap(s, e, os, oe) == ~(e <= os \/ s >= oe)

\* variant of the occupancy test: any occupied range blocks a candidate
AnyOccupied(ent, occupied) == occupied # <<>>

\* lines 202-206: the candidate overlaps some occupied range
OverlapsOccupied(ent, occupied) ==
    \E k \in DOMAIN occupied :
        Overlap(ent.start, ent.end, occupied[k][1], occupied[k][2])

\* variant of the walk: a candidate with start >= end is not skipped
RECURSIVE WalkKeepsDegenerate(_, _, _)
WalkKeepsDegenerate(cands, accepted, occupied) ==
    IF cands = <<>> THEN accepted
    ELSE LET ent == Head(cands) IN
         IF OverlapsOccupied(ent, occupied)
         THEN WalkKeepsDegenerate(Tail(cands), accepted, occupied)
         ELSE WalkKeepsDegenerate(Tail(cands), Append(accepted, ent),
                                  Append(occupied, <<ent.start, ent.end>>))

\* lines 197-209: the greedy walk over the sorted candidates
RECURSIVE Walk(_, _, _)
Walk(cands, accepted, occupied) ==
    IF cands = <<>> THEN accepted
    ELSE LET ent == Head(cands) IN
         IF ent.start >= ent.end
         THEN Walk(Tail(cands), accepted, occupied)
         ELSE IF OverlapsOccupied(ent, occupied)
              THEN Walk(Tail(cands), accepted, occupied)
              ELSE Walk(Tail(cands), Append(accepted, ent),
                        Append(occupied, <<ent.start, ent.end>>))

\* line 212: accepted.sort(key=start), stable
RECURSIVE InsertByStart(_, _)
InsertByStart(sorted, x) ==
    IF sorted = <<>> THEN <<x>>
    ELSE IF x.start < Head(sorted).start
         THEN <<x>> \o sorted
         ELSE <<Head(sorted)>> \o InsertByStart(Tail(sorted), x)

RECURSIVE SortByStart(_)
SortByStart(ents) ==
    IF ents = <<>> THEN <<>>
    ELSE InsertByStart(SortByStart(SubSeq(ents, 1, Len(ents) - 1)),
                       ents[Len(ents)])

\* variant of the merge: the accepted entities stay in acceptance order
MergeInAcceptanceOrder(prim, sec) ==
    LET candidates == [i \in 1..(Len(prim) + Len(sec)) |->
                          Normalize((prim \o sec)[i])]
    IN  Walk(SortCandidates(candidates), <<>>, <<>>)

\* lines 179-213
_merge_entities(prim, sec) ==
    LET candidates == [i \in 1..(Len(prim) + Len(sec)) |->
                          Normalize((prim \o sec)[i])]
    IN  SortByStart(Walk(SortCandidates(candidates), <<>>, <<>>))

----------------------------------------------------------------------------
(* Texts *)

\* characters of the generated texts
TextChars == {"a", "1"}

\* "to a@b.c 555123.": an e-mail address and a phone number
SampleEmailPhone ==
    <<"t", "o", " ", "a", "@", "b", ".", "c", " ", "5", "5", "5", "1", "2", "3", ".">>
\* "http://1.1.1.1": a URL that holds an IP address
SampleUrlIp == <<"h", "t", "t", "p", ":", "/", "/", "1", ".", "1", ".", "1", ".", "1">>
\* "www.a@b.c": a URL that is an e-mail address too
SampleUrlEmail == <<"w", "w", "w", ".", "a", "@", "b", ".", "c">>

\* "4111111111111111": a card number of 16 digits
SampleCard == <<"4", "1", "1", "1", "1", "1", "1", "1", "1", "1", "1", "1", "1", "1", "1", "1">>
\* "x a@b.c a@b.c": two e-mail addresses
SampleTwoEmails ==
    <<"x", " ", "a", "@", "b", ".", "c", " ", "a", "@", "b", ".", "c">>
\* "123-45-6789": a social security number
SampleSsn == <<"1", "2", "3", "-", "4", "5", "-", "6", "7", "8", "9">>
\* "AB1234": a driver licence number
SampleLicense == <<"A", "B", "1", "2", "3", "4">>

SampleTexts == {SampleEmailPhone, SampleUrlIp, SampleUrlEmail, SampleCard,
                SampleTwoEmails, SampleSsn, SampleLicense}

\* the strings of the model
StrTexts == SeqsUpTo(TextChars, MaxLen) \cup SampleTexts

----------------------------------------------------------------------------
(* Characters and patterns of _REGEX_PATTERNS *)

Digits == {"0", "1", "2", "3", "4", "5", "6", "7", "8", "9"}
Lower == {"a", "b", "c", "d", "e", "f", "g", "h", "i", "j", "k", "l", "m",
          "n", "o", "p", "q", "r", "s", "t", "u", "v", "w", "x", "y", "z"}
Upper == {"A", "B", "C", "D", "E", "F", "G", "H", "I", "J", "K", "L", "M",
          "N", "O", "P", "Q", "R", "S", "T", "U", "V", "W", "X", "Y", "Z"}
\* \s, over the characters of the model's texts
Whitespace == {" "}
\* \w, which decides \b
WordChars == Digits \cup Lower \cup Upper \cup {"_"}

\* pattern nodes: a character class, a negated class, a literal, a
\* concatenation, an alternation, a repetition {lo,hi} (hi < 0: no upper
\* limit), greedy or lazy, and \b
In(chars) == [k |-> "in", chars |-> chars]
NotIn(chars) == [k |-> "notin", chars |-> chars]
Lit(c) == [k |-> "in", chars |-> {c}]
Cat(items) == [k |-> "cat", items |-> items]
Alt(items) == [k |-> "alt", items |-> items]
Rep(item, lo, hi) ==
    [k |-> "rep", item |-> item, lo |-> lo, hi |-> hi, lazy |-> FALSE]
LazyRep(item, lo, hi) ==
    [k |-> "rep", item |-> item, lo |-> lo, hi |-> hi, lazy |-> TRUE]
Opt(item) == Rep(item, 0, 1)
Plus(item) == Rep(item, 1, -1)
WordBoundary == [k |-> "wb"]

\* [-.\s]
Sep == In({"-", "."} \cup Whitespace)

\* [a-zA-Z0-9_.+-]+@[a-zA-Z0-9-]+\.[a-zA-Z0-9-.]+
EmailPattern ==
    Cat(<< Plus(In(Lower \cup Upper \cup Digits \cup {"_", ".", "+", "-"})),
           Lit("@"),
           Plus(In(Lower \cup Upper \cup Digits \cup {"-"})),
           Lit("."),
           Plus(In(Lower \cup Upper \cup Digits \cup {"-", "."})) >>)

\* (?:\+?\d{1,3}[-.\s]?)?(?:\(?\d{2,4}\)?[-.\s]?)?\d{3,4}[-.\s]?\d{3,4}
PhonePattern ==
    Cat(<< Opt(Cat(<< Opt(Lit("+")), Rep(In(Digits), 1, 3), Opt(Sep) >>)),
           Opt(Cat(<< Opt(Lit("(")), Rep(In(Digits), 2, 4), Opt(Lit(")")),
                      Opt(Sep) >>)),
           Rep(In(Digits), 3, 4), Opt(Sep), Rep(In(Digits), 3, 4) >>)

\* \b\d{3}-\d{2}-\d{4}\b
SsnPattern ==
    Cat(<< WordBoundary, Rep(In(Digits), 3, 3), Lit("-"), Rep(In(Digits), 2, 2),
           Lit("-"), Rep(In(Digits), 4, 4), WordBoundary >>)

\* \b(?:\d[ -]*?){13,19}\b
CreditCardPattern ==
    Cat(<< WordBoundary,
           Rep(Cat(<< In(Digits), LazyRep(In({" ", "-"}), 0, -1) >>), 13, 19),
           WordBoundary >>)

\* \b(?:\d{1,3}\.){3}\d{1,3}\b
IpPattern ==
    Cat(<< WordBoundary, Rep(Cat(<< Rep(In(Digits), 1, 3), Lit(".") >>), 3, 3),
           Rep(In(Digits), 1, 3), WordBoundary >>)

\* https?://[^\s]+|www\.[^\s]+
UrlPattern ==
    Alt(<< Cat(<< Lit("h"), Lit("t"), Lit("t"), Lit("p"), Opt(Lit("s")),
                  Lit(":"), Lit("/"), Lit("/"), Plus(NotIn(Whitespace)) >>),
           Cat(<< Lit("w"), Lit("w"), Lit("w"), Lit("."),
                  Plus(NotIn(Whitespace)) >>) >>)

\* \b[A-Z]{1,2}\d{4,8}\b
DriverLicensePattern ==
    Cat(<< WordBoundary, Rep(In(Upper), 1, 2), Rep(In(Digits), 4, 8),
           WordBoundary >>)

\* variant of the table: phone matches are trusted as much as e-mail matches
PatternsPhoneTrusted ==
    << <<"EMAIL", EmailPattern, 95>>,
       <<"PHONE", PhonePattern, 95>>,
       <<"SSN", SsnPattern, 98>>,
       <<"CREDIT_CARD", CreditCardPattern, 60>>,
       <<"IP_ADDRESS", IpPattern, 90>>,
       <<"URL", UrlPattern, 90>>,
       <<"US_DRIVER_LICENSE", DriverLicensePattern, 35>> >>

\* (label, pattern, confidence in hundredths), in the order of the table
_REGEX_PATTERNS ==
    << <<"EMAIL", EmailPattern, 95>>,
       <<"PHONE", PhonePattern, 70>>,
       <<"SSN", SsnPattern, 98>>,
       <<"CREDIT_CARD", CreditCardPattern, 60>>,
       <<"IP_ADDRESS", IpPattern, 90>>,
       <<"URL", UrlPattern, 90>>,
       <<"US_DRIVER_LICENSE", DriverLicensePattern, 35>> >>

----------------------------------------------------------------------------
(* re: the backtracking matcher and finditer *)

\* \b at offset i: exactly one of the characters before and after is a word character
IsWord(t, p) == p >= 1 /\ p <= Len(t) /\ t[p] \in WordChars
AtWordBoundary(t, i) == IsWord(t, i) # IsWord(t, i + 1)

\* a \o b without the elements of b that a holds already: an end reached a
\* second time leads to nothing the first time did not try
RECURSIVE AppendNew(_, _)
AppendNew(a, b) ==
    IF b = <<>> THEN a
    ELSE IF \E k \in DOMAIN a : a[k] = Head(b)
         THEN AppendNew(a, Tail(b))
         ELSE AppendNew(Append(a, Head(b)), Tail(b))

RECURSIVE Ends(_, _, _), EndsFrom(_, _, _), EndsCat(_, _, _)
RECURSIVE EndsAlt(_, _, _), EndsRep(_, _, _, _), EndsRepFrom(_, _, _, _)

\* the offsets at which a match of node n that starts at offset i can end,
\* in the order in which the backtracking matcher tries them
Ends(n, t, i) ==
    CASE n.k = "in" ->
            IF i < Len(t) /\ t[i + 1] \in n.chars THEN <<i + 1>> ELSE <<>>
      [] n.k = "notin" ->
            IF i < Len(t) /\ t[i + 1] \notin n.chars THEN <<i + 1>> ELSE <<>>
      [] n.k = "wb" -> IF AtWordBoundary(t, i) THEN <<i>> ELSE <<>>
      [] n.k = "cat" -> EndsCat(n.items, t, <<i>>)
      [] n.k = "alt" -> EndsAlt(n.items, t, i)
      [] n.k = "rep" -> EndsRep(n, t, i, 0)

EndsFrom(n, t, offsets) ==
    IF offsets = <<>> THEN <<>>
    ELSE AppendNew(Ends(n, t, Head(offsets)), EndsFrom(n, t, Tail(offsets)))

EndsCat(items, t, offsets) ==
    IF items = <<>> THEN offsets
    ELSE EndsCat(Tail(items), t, EndsFrom(Head(items), t, offsets))

EndsAlt(items, t, i) ==
    IF items = <<>> THEN <<>>
    ELSE AppendNew(Ends(Head(items), t, i), EndsAlt(Tail(items), t, i))

EndsRepFrom(n, t, offsets, count) ==
    IF offsets = <<>> THEN <<>>
    ELSE AppendNew(EndsRep(n, t, Head(offsets), count),
                   EndsRepFrom(n, t, Tail(offsets), count))

\* a greedy repetition tries one more iteration before it stops, a lazy one
\* stops before it tries one more
EndsRep(n, t, i, count) ==
    LET more == IF n.hi < 0 \/ count < n.hi
                THEN EndsRepFrom(n, t,
                         SelectSeq(Ends(n.item, t, i), LAMBDA j : j > i),
                         count + 1)
                ELSE <<>>
        stop == IF count >= n.lo THEN <<i>> ELSE <<>>
    IN  IF n.lazy THEN AppendNew(stop, more) ELSE AppendNew(more, stop)

\* pattern.finditer(text) from offset pos: the spans <<start, end>> of the
\* matches, left to right, each search resuming where the last match ended
RECURSIVE Finditer(_, _, _)
Finditer(pattern, t, pos) ==
    IF pos > Len(t) THEN <<>>
    ELSE LET ends == Ends(pattern, t, pos) IN
         IF ends = <<>> THEN Finditer(pattern, t, pos + 1)
         ELSE <<<<pos, Head(ends)>>>> \o
              Finditer(pattern, t, IF Head(ends) > pos THEN Head(ends) ELSE pos + 1)

\* text[b:e] for offsets b, e >= 0
Slice(t, b, e) == SubSeq(t, b + 1, IF e < Len(t) THEN e ELSE Len(t))

----------------------------------------------------------------------------
(* The detectors *)

\* lines 162-174: the entities of one row's matches, zero-length ones skipped
RECURSIVE MatchEntities(_, _, _)
MatchEntities(row, t, spans) ==
    IF spans = <<>> THEN <<>>
    ELSE LET s == Head(spans)[1]
             e == Head(spans)[2]
         IN  IF e <= s THEN MatchEntities(row, t, Tail(spans))
             ELSE << [type |-> row[1], score |-> row[3], start |-> s, end |-> e,
                      text |-> Slice(t, s, e), source |-> "regex"] >>
                  \o MatchEntities(row, t, Tail(spans))

\* lines 159-175
_regex_detect(t) ==
    FlattenSeq([r \in DOMAIN _REGEX_PATTERNS |->
        MatchEntities(_REGEX_PATTERNS[r], t,
                      Finditer(_REGEX_PATTERNS[r][2], t, 0))])

\* _regex_detect on each string of the model, computed once: the pairs
\* <<text, entities>>, and the lookup
RegexDetectTable == { <<t, _regex_detect(t)>> : t \in StrTexts }
RegexDetectOf(t) == (CHOOSE p \in RegexDetectTable : p[1] = t)[2]

\* lines 108-118: one entity of the service's response, missing keys defaulted
ComprehendEntity(e, t) ==
    LET begin == IF "BeginOffset" \in DOMAIN e THEN e.BeginOffset ELSE 0
        end == IF "EndOffset" \in DOMAIN e THEN e.EndOffset ELSE 0
    IN  [type |-> IF "Type" \in DOMAIN e THEN e.Type ELSE "None",
         score |-> IF "Score" \in DOMAIN e THEN e.Score ELSE 0,
         start |-> begin,
         end |-> end,
         text |-> Slice(t, begin, end),
         source |-> "comprehend"]

\* lines 97-122, called with AWS_COMPREHEND_ENABLED set: raises when boto3 is
\* missing or the client call fails, else returns the converted entities
_comprehend_detect_pii(t, resp) ==
    IF resp.kind = "no_boto3" THEN [raised |-> "RuntimeError", value |-> <<>>]
    ELSE IF resp.kind = "client_error"
         THEN [raised |-> "RuntimeError", value |-> <<>>]
         ELSE [raised |-> "",
               value |-> [i \in DOMAIN resp.Entities |->
                             ComprehendEntity(resp.Entities[i], t)]]

\* lines 137-146
MapLabel(label) ==
    IF label = "PERSON" THEN "PERSON"
    ELSE IF label \in {"GPE", "LOC"} THEN "LOCATION"
    ELSE IF label = "ORG" THEN "ORG"
    ELSE IF label = "MONEY" THEN "MONEY"
    ELSE label

\* lines 126-155, called with _spacy_available set: a failure of the model is
\* caught inside and gives no entities
_spacy_detect_pii(t, resp) ==
    IF resp.kind = "error" THEN [raised |-> "", value |-> <<>>]
    ELSE [raised |-> "",
          value |-> [i \in DOMAIN resp.ents |->
                        [type |-> MapLabel(resp.ents[i].label_),
                         score |-> 60,
                         start |-> resp.ents[i].start_char,
                         end |-> resp.ents[i].end_char,
                         text |-> Slice(t, resp.ents[i].start_char,
                                        resp.ents[i].end_char),
                         source |-> "spacy"]]]

----------------------------------------------------------------------------
(* detect_pii *)

NoReport == [none |-> TRUE]
NoResponse == [kind |-> "none"]
NoText == [type |-> "str", value |-> <<>>]
NoPreserve == [t \in {} |-> 0]

\* no call of _redact_spanwise is under way
LoopIdle == entities = <<>> /\ todo = <<>> /\ pieces = <<>> /\ last = 0

\* no call is on record and no batch is under way
NoCalls == history = <<>>
NoBatch == texts = <<>> /\ batch_resp = <<>> /\ reports = <<>>

\* whisper.py is not in use
RouteIdle ==
    /\ record = None
    /\ use_realtime_threshold = None
    /\ wait_for_transform_completion = FALSE
    /\ _BOTO3_AVAILABLE = FALSE
    /\ SAGEMAKER_ENDPOINT = None
    /\ SAGEMAKER_TRANSFORM_ROLE = None
    /\ TRANSFORM_OUTPUT_BUCKET = None
    /\ MAX_REALTIME_BYTES = 0
    /\ aws = None
    /\ requests = <<>>
    /\ result = None

\* variant of the handler: the exception is re-raised
Uncaught(outcome) == outcome

\* lines 228-231 and 235-238: try: ... except Exception: log, keep the empty list
Caught(outcome) ==
    IF outcome.raised # "" THEN [raised |-> "", value |-> <<>>] ELSE outcome

\* variant of the count: a type is counted once
RECURSIVE CountTypesOnce(_, _)
CountTypesOnce(ents, counts) ==
    IF ents = <<>> THEN counts
    ELSE LET ty == Head(ents).type
         IN  CountTypesOnce(Tail(ents),
                 [x \in DOMAIN counts \cup {ty} |->
                     IF x = ty THEN 1 ELSE counts[x]])

\* lines 243-245
RECURSIVE CountTypes(_, _)
CountTypes(ents, counts) ==
    IF ents = <<>> THEN counts
    ELSE LET ty == Head(ents).type
             n == IF ty \in DOMAIN counts THEN counts[ty] ELSE 0
         IN  CountTypes(Tail(ents),
                 [x \in DOMAIN counts \cup {ty} |->
                     IF x = ty THEN n + 1 ELSE counts[x]])

\* lines 217-252; an exception no handler catches ends the call
detect_pii(arg, comprehend_enabled, spacy_available, cresp, sresp) ==
    IF arg.type # "str"
    THEN [raised |-> "TypeError", ran |-> {}, primary |-> <<>>,
          secondary |-> <<>>, merged |-> <<>>, report |-> NoReport]
    ELSE
    LET t == arg.value
        regex_entities == RegexDetectOf(t)
        comp == IF comprehend_enabled
                THEN Caught(_comprehend_detect_pii(t, cresp))
                ELSE [raised |-> "", value |-> <<>>]
        spcy == IF spacy_available
                THEN Caught(_spacy_detect_pii(t, sresp))
                ELSE [raised |-> "", value |-> <<>>]
        called == {"regex"}
                    \cup (IF comprehend_enabled THEN {"comprehend"} ELSE {})
                    \cup (IF comp.raised = "" /\ spacy_available
                          THEN {"spacy"} ELSE {})
        ents == _merge_entities(regex_entities, comp.value \o spcy.value)
    IN  IF comp.raised # ""
        THEN [raised |-> comp.raised, ran |-> called, primary |-> <<>>,
              secondary |-> <<>>, merged |-> <<>>, report |-> NoReport]
        ELSE IF spcy.raised # ""
        THEN [raised |-> spcy.raised, ran |-> called, primary |-> <<>>,
              secondary |-> <<>>, merged |-> <<>>, report |-> NoReport]
        ELSE [raised |-> "", ran |-> called,
              primary |-> regex_entities,
              secondary |-> comp.value \o spcy.value,
              merged |-> ents,
              report |-> [text |-> t,
                          length |-> Len(t),
                          entities |-> ents,
                          summary |-> [counts |-> CountTypes(ents, NoPreserve),
                                       total |-> Len(ents)]]]

----------------------------------------------------------------------------
(* Redaction *)

\* variant of the mask: the first characters of the fragment are kept
MaskKeepFirst(fragment, keep_last, token) ==
    IF keep_last <= 0 THEN token
    ELSE IF Len(fragment) <= keep_last THEN token \o fragment
    ELSE token \o SubSeq(fragment, 1, keep_last)

\* lines 261-272
_mask_keep_last(fragment, keep_last, token) ==
    IF keep_last <= 0 THEN token
    ELSE IF Len(fragment) <= keep_last THEN token \o fragment
    ELSE token \o SubSeq(fragment, Len(fragment) - keep_last + 1, Len(fragment))

\* variant of the loop: the text after the last entity is not appended
RECURSIVE RedactLoopNoTail(_, _, _, _, _, _)
RedactLoopNoTail(t, ents, token, keep, joined, cursor) ==
    IF ents = <<>> THEN joined
    ELSE LET ent == Head(ents)
             s == IF ent.start > cursor THEN ent.start ELSE cursor
             e == ent.end
             fragment == Slice(t, s, e)
             keep_n == IF ent.type \in DOMAIN keep THEN keep[ent.type] ELSE 0
         IN  IF s >= e THEN RedactLoopNoTail(t, Tail(ents), token, keep, joined, cursor)
             ELSE RedactLoopNoTail(t, Tail(ents), token, keep,
                      joined \o Slice(t, cursor, s) \o
                          (IF keep_n # 0
                           THEN _mask_keep_last(fragment, keep_n, token)
                           ELSE token),
                      e)

\* variant of the clamp: the start of the entity is taken as it is
NoClamp(start, cursor) == start

\* line 288: s = max(start, last)
Clamp(start, cursor) == IF start > cursor THEN start ELSE cursor

\* lines 287-299: the loop over the entities sorted by start, with the pieces
\* joined so far and the cursor
RECURSIVE RedactLoop(_, _, _, _, _, _)
RedactLoop(t, ents, token, keep, joined, cursor) ==
    IF ents = <<>> THEN joined \o Slice(t, cursor, Len(t))
    ELSE LET ent == Head(ents)
             s == Clamp(ent.start, cursor)
             e == ent.end
             fragment == Slice(t, s, e)
             keep_n == IF ent.type \in DOMAIN keep THEN keep[ent.type] ELSE 0
         IN  IF s >= e THEN RedactLoop(t, Tail(ents), token, keep, joined, cursor)
             ELSE RedactLoop(t, Tail(ents), token, keep,
                      joined \o Slice(t, cursor, s) \o
                          (IF keep_n # 0
                           THEN _mask_keep_last(fragment, keep_n, token)
                           ELSE token),
                      e)

\* lines 275-301
_redact_spanwise(t, ents, token, keep) ==
    IF ents = <<>> THEN t
    ELSE RedactLoop(t, SortByStart(ents), token, keep, <<>>, 0)

\* lines 304-312
redact_pii(arg, token, keep, comprehend_enabled, spacy_available, cresp, sresp) ==
    LET d == detect_pii(arg, comprehend_enabled, spacy_available, cresp, sresp)
    IN  IF d.raised # "" THEN [detect |-> d, redacted |-> <<>>]
        ELSE [detect |-> d,
              redacted |-> _redact_spanwise(arg.value, d.report.entities,
                                            token, keep)]

----------------------------------------------------------------------------
(* Inputs of a direct call of _merge_entities *)

\* rows of _REGEX_PATTERNS used for the regex-shaped candidates
MergeRows == { <<"PHONE", 70>>, <<"URL", 90>> }

\* scores an external detector reports: that of a regex row, and a higher one
ExternalScores == {70, 95}

\* candidate offsets, and those of positive length
Spans == (0..MaxOff) \X (0..MaxOff)
PositiveSpans == { sp \in Spans : sp[1] < sp[2] }

\* a candidate as _regex_detect builds it: all keys, positive length
RegexShaped ==
    { [type |-> r[1], score |-> r[2], start |-> sp[1], end |-> sp[2],
       source |-> "regex"] : r \in MergeRows, sp \in PositiveSpans }

\* a candidate of an external detector: any offsets, also start >= end
ExternalShaped ==
    { [type |-> "NAME", score |-> sc, start |-> sp[1], end |-> sp[2],
       source |-> "comprehend"] : sc \in ExternalScores, sp \in Spans }

\* a caller's dict that lacks the score, or the score and the offsets
SparseShaped ==
    { [type |-> "NAME", start |-> sp[1], end |-> sp[2], source |-> "caller"] :
        sp \in PositiveSpans } \cup
    { [type |-> "NAME", source |-> "caller"] }

\* position of a type in the pattern table (PHONE is row 2, URL is row 6)
RowOf(type) == IF type = "PHONE" THEN 2 ELSE 6

\* _regex_detect lists the matches row by row, and finditer yields the
\* matches of one pattern left to right, none overlapping the one before
FinditerOrdered(l) ==
    \A i, j \in DOMAIN l :
        i < j => /\ RowOf(l[i].type) <= RowOf(l[j].type)
                 /\ l[i].type = l[j].type => l[i].end <= l[j].start

\* the argument pairs of a call: up to MaxPrimary regex candidates, and
\* no or one candidate of another source
MergeInputs ==
    { l \in SeqsUpTo(RegexShaped, MaxPrimary) : FinditerOrdered(l) } \X
    SeqsUpTo(ExternalShaped \cup SparseShaped, 1)

----------------------------------------------------------------------------
(* The pure-function specification of _merge_entities *)

InitMerge ==
    /\ pc = "call"
    /\ op = "_merge_entities"
    /\ \E io \in MergeInputs : primary = io[1] /\ secondary = io[2]
    /\ merged = <<>>
    /\ text = NoText
    /\ replace_with = <<>>
    /\ preserve_last_n = NoPreserve
    /\ AWS_COMPREHEND_ENABLED = FALSE
    /\ _spacy_available = FALSE
    /\ comprehend_resp = NoResponse
    /\ spacy_resp = NoResponse
    /\ ran = {}
    /\ raised = ""
    /\ report = NoReport
    /\ redacted = <<>>
    /\ LoopIdle
    /\ NoCalls
    /\ NoBatch
    /\ RouteIdle
    /\ ModulesIdle

MergeEntities ==
    /\ pc = "call"
    /\ op = "_merge_entities"
    /\ merged' = _merge_entities(primary, secondary)
    /\ pc' = "done"
    /\ UNCHANGED <<op, text, replace_with, preserve_last_n, AWS_COMPREHEND_ENABLED,
                   _spacy_available, comprehend_resp, spacy_resp, primary,
                   secondary, ran, raised, report, redacted, loopVars,
                   callVars, batchVars, routeVars, moduleVars>>

NextMerge == MergeEntities

SpecMerge == InitMerge /\ [][NextMerge]_vars

----------------------------------------------------------------------------
(* Inputs of detect_pii and redact_pii *)

\* the text arguments: strings, and values that are no string
TextArgs ==
    { [type |-> "str", value |-> t] : t \in StrTexts }
    \cup { [type |-> "NoneType", value |-> <<>>],
           [type |-> "bytes", value |-> <<"a">>] }

\* entities of a Comprehend response: any offsets, and one without its keys
ServiceEntities ==
    { [Type |-> "NAME", Score |-> sc, BeginOffset |-> sp[1], EndOffset |-> sp[2]] :
        sc \in ExternalScores, sp \in Spans }
    \cup { [Type |-> "NAME"] }

\* what the Comprehend client can do
ComprehendResponses ==
    { [kind |-> "no_boto3"], [kind |-> "client_error"] }
    \cup { [kind |-> "ok", Entities |-> l] : l \in SeqsUpTo(ServiceEntities, 1) }

\* entities of a spaCy document: spans of the text
SpacyEnts(t) ==
    { [label_ |-> lb, start_char |-> sp[1], end_char |-> sp[2]] :
        lb \in {"GPE", "CARDINAL"},
        sp \in { x \in PositiveSpans : x[2] <= Len(t) } }

\* what the spaCy model can do
SpacyResponses(t) ==
    { [kind |-> "error"] }
    \cup { [kind |-> "ok", ents |-> l] : l \in SeqsUpTo(SpacyEnts(t), 1) }

\* _DEFAULT_REPLACEMENT, "[REDACTED]"
_DEFAULT_REPLACEMENT == <<"[", "R", "E", "D", "A", "C", "T", "E", "D", "]">>

\* replacement tokens
Tokens == { _DEFAULT_REPLACEMENT, <<"#">> }

\* the example of the docstring of redact_pii: {"CREDIT_CARD": 4}
KeepCardDigits == [ty \in {"CREDIT_CARD"} |-> 4]

\* preserve_last_n arguments: None, maps with N above, at and below the
\* length of a span, zero and negative, and the example of the docstring
PreserveMaps ==
    { NoPreserve,
      [ty \in {"NAME", "LOCATION"} |-> IF ty = "NAME" THEN 1 ELSE 0],
      [ty \in {"NAME", "LOCATION"} |-> IF ty = "NAME" THEN 2 ELSE -1],
      KeepCardDigits }

----------------------------------------------------------------------------
(* The specification of detect_pii and redact_pii *)

Init ==
    /\ pc = "call"
    /\ op \in {"detect_pii", "redact_pii"}
    /\ text \in TextArgs
    /\ replace_with \in (IF op = "redact_pii" THEN Tokens ELSE {_DEFAULT_REPLACEMENT})
    /\ preserve_last_n \in (IF op = "redact_pii" THEN PreserveMaps ELSE {NoPreserve})
    /\ AWS_COMPREHEND_ENABLED \in BOOLEAN
    /\ _spacy_available \in BOOLEAN
    /\ comprehend_resp \in
          (IF AWS_COMPREHEND_ENABLED THEN ComprehendResponses ELSE {NoResponse})
    /\ spacy_resp \in
          (IF _spacy_available THEN SpacyResponses(text.value) ELSE {NoResponse})
    /\ primary = <<>>
    /\ secondary = <<>>
    /\ merged = <<>>
    /\ ran = {}
    /\ raised = ""
    /\ report = NoReport
    /\ redacted = <<>>
    /\ LoopIdle
    /\ NoCalls
    /\ NoBatch
    /\ RouteIdle
    /\ ModulesIdle

DetectPii ==
    /\ pc = "call"
    /\ op = "detect_pii"
    /\ \E d \in {detect_pii(text, AWS_COMPREHEND_ENABLED, _spacy_available,
                             comprehend_resp, spacy_resp)} :
           /\ raised' = d.raised
           /\ ran' = d.ran
           /\ primary' = d.primary
           /\ secondary' = d.secondary
           /\ merged' = d.merged
           /\ report' = d.report
    /\ pc' = "done"
    /\ UNCHANGED <<op, text, replace_with, preserve_last_n, AWS_COMPREHEND_ENABLED,
                   _spacy_available, comprehend_resp, spacy_resp, redacted, loopVars,
                   callVars, batchVars, routeVars, moduleVars>>

RedactPii ==
    /\ pc = "call"
    /\ op = "redact_pii"
    /\ \E r \in {redact_pii(text, replace_with, preserve_last_n,
                             AWS_COMPREHEND_ENABLED, _spacy_available,
                             comprehend_resp, spacy_resp)} :
           /\ raised' = r.detect.raised
           /\ ran' = r.detect.ran
           /\ primary' = r.detect.primary
           /\ secondary' = r.detect.secondary
           /\ merged' = r.detect.merged
           /\ report' = r.detect.report
           /\ redacted' = r.redacted
    /\ pc' = "done"
    /\ UNCHANGED <<op, text, replace_with, preserve_last_n, AWS_COMPREHEND_ENABLED,
                   _spacy_available, comprehend_resp, spacy_resp, loopVars,
                   callVars, batchVars, routeVars, moduleVars>>

Next == DetectPii \/ RedactPii

Spec == Init /\ [][Next]_vars

----------------------------------------------------------------------------
(* The specification of a direct call of _redact_spanwise, loop step by step *)

\* entities as _redact_spanwise reads them: a type and any two offsets; the
\* list may be out of order and its spans may overlap
RedactEntities ==
    { [type |-> ty, start |-> sp[1], end |-> sp[2]] :
        ty \in {"NAME", "LOCATION"}, sp \in Spans }

\* the empty text and the texts of MaxLen characters
RedactTexts == { t \in SeqsUpTo(TextChars, MaxLen) : Len(t) \in {0, MaxLen} }

InitRedact ==
    /\ pc = "call"
    /\ op = "_redact_spanwise"
    /\ text \in { [type |-> "str", value |-> t] : t \in RedactTexts }
    /\ entities \in SeqsUpTo(RedactEntities, 2)
    /\ replace_with = <<"#">>
    /\ preserve_last_n \in PreserveMaps
    /\ todo = <<>>
    /\ pieces = <<>>
    /\ last = 0
    /\ AWS_COMPREHEND_ENABLED = FALSE
    /\ _spacy_available = FALSE
    /\ comprehend_resp = NoResponse
    /\ spacy_resp = NoResponse
    /\ primary = <<>>
    /\ secondary = <<>>
    /\ merged = <<>>
    /\ ran = {}
    /\ raised = ""
    /\ report = NoReport
    /\ redacted = <<>>
    /\ NoCalls
    /\ NoBatch
    /\ RouteIdle
    /\ ModulesIdle

\* lines 282-287: no entities, the text is returned; otherwise the loop
\* starts on the entities sorted by start
RedactEnter ==
    /\ pc = "call"
    /\ op = "_redact_spanwise"
    /\ IF entities = <<>>
       THEN /\ redacted' = text.value
            /\ pc' = "done"
            /\ UNCHANGED <<todo, pieces, last>>
       ELSE /\ todo' = SortByStart(entities)
            /\ pieces' = <<>>
            /\ last' = 0
            /\ pc' = "loop"
            /\ UNCHANGED redacted
    /\ UNCHANGED <<op, text, replace_with, preserve_last_n, AWS_COMPREHEND_ENABLED,
                   _spacy_available, comprehend_resp, spacy_resp, primary,
                   secondary, merged, ran, raised, report, entities,
                   callVars, batchVars, routeVars, moduleVars>>

\* lines 287-299: one iteration of the loop. A piece is held with the range
\* of the text it stands for and the entity it renders (0: text copied)
RedactStep ==
    /\ pc = "loop"
    /\ todo # <<>>
    /\ LET ent == Head(todo)
           k == Len(entities) - Len(todo) + 1
           s == Clamp(ent.start, last)
           e == ent.end
           fragment == Slice(text.value, s, e)
           keep_n == IF ent.type \in DOMAIN preserve_last_n
                     THEN preserve_last_n[ent.type] ELSE 0
       IN  IF s >= e
           THEN UNCHANGED <<pieces, last>>
           ELSE /\ pieces' = pieces \o
                     << [chars |-> Slice(text.value, last, s),
                         from |-> last, to |-> s, ent |-> 0],
                        [chars |-> IF keep_n # 0
                                   THEN _mask_keep_last(fragment, keep_n, replace_with)
                                   ELSE replace_with,
                         from |-> s, to |-> e, ent |-> k] >>
                /\ last' = e
    /\ todo' = Tail(todo)
    /\ UNCHANGED <<pc, op, text, replace_with, preserve_last_n, AWS_COMPREHEND_ENABLED,
                   _spacy_available, comprehend_resp, spacy_resp, primary,
                   secondary, merged, ran, raised, report, redacted, entities,
                   callVars, batchVars, routeVars, moduleVars>>

\* lines 300-301: the rest of the text is appended and the pieces are joined
RedactJoin ==
    /\ pc = "loop"
    /\ todo = <<>>
    /\ pieces' = Append(pieces, [chars |-> Slice(text.value, last, Len(text.value)),
                                 from |-> last, to |-> Len(text.value), ent |-> 0])
    /\ redacted' = FlattenSeq([i \in DOMAIN pieces' |-> pieces'[i].chars])
    /\ pc' = "done"
    /\ UNCHANGED <<op, text, replace_with, preserve_last_n, AWS_COMPREHEND_ENABLED,
                   _spacy_available, comprehend_resp, spacy_resp, primary,
                   secondary, merged, ran, raised, report, entities, todo, last,
                   callVars, batchVars, routeVars, moduleVars>>

NextRedact == RedactEnter \/ RedactStep \/ RedactJoin

SpecRedact == InitRedact /\ [][NextRedact]_vars

----------------------------------------------------------------------------
(* The specification of a sequence of calls in one process *)

\* the number of calls of one run
MaxCalls == 3

\* the arguments of the calls: two strings and a value that is no string
CallArgs ==
    { [type |-> "str", value |-> <<"a">>],
      [type |-> "str", value |-> SampleEmailPhone],
      [type |-> "bytes", value |-> <<"a">>] }

\* what the Comprehend client does on a call: it fails, or it finds a name
CallComprehend ==
    { [kind |-> "client_error"],
      [kind |-> "ok",
       Entities |-> << [Type |-> "NAME", Score |-> 70,
                        BeginOffset |-> 0, EndOffset |-> 1] >>] }

\* what the spaCy model does on a call: it finds a place
CallSpacy ==
    { [kind |-> "ok",
       ents |-> << [label_ |-> "GPE", start_char |-> 0, end_char |-> 1] >>] }

\* lines 49 and 54-68: the configuration is read when the module is loaded
InitCalls ==
    /\ pc = "idle"
    /\ op = "none"
    /\ text = NoText
    /\ replace_with = _DEFAULT_REPLACEMENT
    /\ preserve_last_n = NoPreserve
    /\ AWS_COMPREHEND_ENABLED \in BOOLEAN
    /\ _spacy_available \in BOOLEAN
    /\ comprehend_resp = NoResponse
    /\ spacy_resp = NoResponse
    /\ primary = <<>>
    /\ secondary = <<>>
    /\ merged = <<>>
    /\ ran = {}
    /\ raised = ""
    /\ report = NoReport
    /\ redacted = <<>>
    /\ LoopIdle
    /\ NoCalls
    /\ NoBatch
    /\ RouteIdle
    /\ ModulesIdle

\* the call as it is put on record
CallRecord(name, arg, cresp, sresp, d, out) ==
    [op |-> name, arg |-> arg, cresp |-> cresp, sresp |-> sresp,
     raised |-> d.raised, report |-> d.report, redacted |-> out]

\* variant of the call: a failure of Comprehend switches Comprehend off for
\* the calls that follow
CallDetectPiiBreaker ==
    /\ Len(history) < MaxCalls
    /\ \E arg \in CallArgs, cresp \in CallComprehend, sresp \in CallSpacy :
         \E d \in {detect_pii(arg, AWS_COMPREHEND_ENABLED, _spacy_available,
                               cresp, sresp)} :
           /\ op' = "detect_pii"
           /\ text' = arg
           /\ comprehend_resp' = cresp
           /\ spacy_resp' = sresp
           /\ raised' = d.raised
           /\ ran' = d.ran
           /\ primary' = d.primary
           /\ secondary' = d.secondary
           /\ merged' = d.merged
           /\ report' = d.report
           /\ history' = Append(history,
                                CallRecord("detect_pii", arg, cresp, sresp, d, <<>>))
           /\ AWS_COMPREHEND_ENABLED' =
                  (AWS_COMPREHEND_ENABLED /\ cresp.kind = "ok")
    /\ UNCHANGED <<pc, replace_with, preserve_last_n,
                   _spacy_available, redacted, loopVars, batchVars, routeVars, moduleVars>>

\* lines 217-252: a call of detect_pii; it assigns no module-level name
CallDetectPii ==
    /\ Len(history) < MaxCalls
    /\ \E arg \in CallArgs, cresp \in CallComprehend, sresp \in CallSpacy :
         \E d \in {detect_pii(arg, AWS_COMPREHEND_ENABLED, _spacy_available,
                               cresp, sresp)} :
           /\ op' = "detect_pii"
           /\ text' = arg
           /\ comprehend_resp' = cresp
           /\ spacy_resp' = sresp
           /\ raised' = d.raised
           /\ ran' = d.ran
           /\ primary' = d.primary
           /\ secondary' = d.secondary
           /\ merged' = d.merged
           /\ report' = d.report
           /\ history' = Append(history,
                                CallRecord("detect_pii", arg, cresp, sresp, d, <<>>))
    /\ UNCHANGED <<pc, replace_with, preserve_last_n, AWS_COMPREHEND_ENABLED,
                   _spacy_available, redacted, loopVars, batchVars, routeVars, moduleVars>>

\* lines 304-312: a call of redact_pii with the default arguments; it assigns
\* no module-level name
CallRedactPii ==
    /\ Len(history) < MaxCalls
    /\ \E arg \in CallArgs, cresp \in CallComprehend, sresp \in CallSpacy :
         \E r \in {redact_pii(arg, replace_with, preserve_last_n,
                               AWS_COMPREHEND_ENABLED, _spacy_available,
                               cresp, sresp)} :
           /\ op' = "redact_pii"
           /\ text' = arg
           /\ comprehend_resp' = cresp
           /\ spacy_resp' = sresp
           /\ raised' = r.detect.raised
           /\ ran' = r.detect.ran
           /\ primary' = r.detect.primary
           /\ secondary' = r.detect.secondary
           /\ merged' = r.detect.merged
           /\ report' = r.detect.report
           /\ redacted' = r.redacted
           /\ history' = Append(history,
                                CallRecord("redact_pii", arg, cresp, sresp,
                                           r.detect, r.redacted))
    /\ UNCHANGED <<pc, replace_with, preserve_last_n, AWS_COMPREHEND_ENABLED,
                   _spacy_available, loopVars, batchVars, routeVars, moduleVars>>

NextCalls == CallDetectPii \/ CallRedactPii

SpecCalls == InitCalls /\ [][NextCalls]_vars

----------------------------------------------------------------------------
(* The specification of detect_pii_batch *)

\* the number of texts of a batch
MaxBatch == 2

\* variant of the batch: each report is put before the reports made so far
RECURSIVE BatchNewestFirst(_, _, _, _)
BatchNewestFirst(ts, resps, comprehend_enabled, spacy_available) ==
    IF ts = <<>> THEN [raised |-> "", value |-> <<>>]
    ELSE LET d == detect_pii(Head(ts), comprehend_enabled, spacy_available,
                             Head(resps).cresp, Head(resps).sresp)
             rest == BatchNewestFirst(Tail(ts), Tail(resps),
                                      comprehend_enabled, spacy_available)
         IN  IF d.raised # "" THEN [raised |-> d.raised, value |-> <<>>]
             ELSE IF rest.raised # "" THEN rest
             ELSE [raised |-> "", value |-> rest.value \o <<d.report>>]

\* lines 255-257: [detect_pii(t) for t in texts]; an exception of an item
\* ends the call and no list is returned
RECURSIVE detect_pii_batch(_, _, _, _)
detect_pii_batch(ts, resps, comprehend_enabled, spacy_available) ==
    IF ts = <<>> THEN [raised |-> "", value |-> <<>>]
    ELSE LET d == detect_pii(Head(ts), comprehend_enabled, spacy_available,
                             Head(resps).cresp, Head(resps).sresp)
             rest == detect_pii_batch(Tail(ts), Tail(resps),
                                      comprehend_enabled, spacy_available)
         IN  IF d.raised # "" THEN [raised |-> d.raised, value |-> <<>>]
             ELSE IF rest.raised # "" THEN rest
             ELSE [raised |-> "", value |-> <<d.report>> \o rest.value]

\* what the external detectors do on one text of the batch
ItemResponses ==
    { [cresp |-> c, sresp |-> s] : c \in CallComprehend, s \in CallSpacy }

InitBatch ==
    /\ pc = "call"
    /\ op = "detect_pii_batch"
    /\ texts \in SeqsUpTo(CallArgs, MaxBatch)
    /\ batch_resp \in [DOMAIN texts -> ItemResponses]
    /\ reports = <<>>
    /\ text = NoText
    /\ replace_with = _DEFAULT_REPLACEMENT
    /\ preserve_last_n = NoPreserve
    /\ AWS_COMPREHEND_ENABLED \in BOOLEAN
    /\ _spacy_available \in BOOLEAN
    /\ comprehend_resp = NoResponse
    /\ spacy_resp = NoResponse
    /\ primary = <<>>
    /\ secondary = <<>>
    /\ merged = <<>>
    /\ ran = {}
    /\ raised = ""
    /\ report = NoReport
    /\ redacted = <<>>
    /\ LoopIdle
    /\ NoCalls
    /\ RouteIdle
    /\ ModulesIdle

DetectPiiBatch ==
    /\ pc = "call"
    /\ op = "detect_pii_batch"
    /\ \E b \in {detect_pii_batch(texts, batch_resp, AWS_COMPREHEND_ENABLED,
                                   _spacy_available)} :
           /\ raised' = b.raised
           /\ reports' = b.value
    /\ pc' = "done"
    /\ UNCHANGED <<op, text, replace_with, preserve_last_n, AWS_COMPREHEND_ENABLED,
                   _spacy_available, comprehend_resp, spacy_resp, primary,
                   secondary, merged, ran, report, redacted, loopVars, callVars,
                   texts, batch_resp, routeVars, moduleVars>>

NextBatch == DetectPiiBatch

SpecBatch == InitBatch /\ [][NextBatch]_vars

----------------------------------------------------------------------------
(* whisper.py: process_s3_event_and_transcribe *)

\* the largest object, in bytes
MaxAudio == 2

\* truth of an optional string: None and "" are false
Truthy(o) == o # None /\ o.value # ""

\* lines 160-192 around one AWS request: boto_client raises without boto3
\* (lines 65-66), a ClientError is retried until the tries are used up; the
\* outcome and the requests sent
Retried(tries, failures, available, request) ==
    IF ~available THEN [raised |-> "RuntimeError", requests |-> <<>>]
    ELSE IF failures >= tries
         THEN [raised |-> "ClientError", requests |-> [k \in 1..tries |-> request]]
         ELSE [raised |-> "", requests |-> [k \in 1..(failures + 1) |-> request]]

\* line 453
Threshold(override, max_realtime_bytes) ==
    IF override # None THEN override.value ELSE max_realtime_bytes

\* variant of the test: an object of exactly the threshold goes to the batch
UseRealtimeBelow(audio_len, threshold, endpoint) ==
    audio_len < threshold /\ Truthy(endpoint)

\* line 458: audio_len <= threshold and SAGEMAKER_ENDPOINT
UseRealtime(audio_len, threshold, endpoint) ==
    audio_len <= threshold /\ Truthy(endpoint)

\* a call that raises
Raises(exc, sent) == [raised |-> exc, requests |-> sent, result |-> None]

\* lines 485-500: the result of the batch path, after the optional wait
TransformResult(wait, env) ==
    IF ~wait THEN [mode |-> "transform"]
    ELSE IF env.describe = "TimeoutError"
         THEN [mode |-> "transform", transform_wait_error |-> "wait_failed"]
         ELSE [mode |-> "transform", transform_status |-> env.describe]

\* lines 427-500
process_s3_event_and_transcribe(rec, override, wait, available, endpoint, role, bucket, max_bytes, env) ==
    IF ~rec.valid THEN Raises("ValueError", <<>>)
    ELSE
    LET dl == Retried(3, env.get_object_failures, available, "get_object")
        audio_len == env.object_len
        threshold == Threshold(override, max_bytes)
        rt == Retried(3, env.invoke_failures, available, "invoke_endpoint")
        st == Retried(2, env.create_failures, available, "create_transform_job")
    IN  IF dl.raised # "" THEN Raises(dl.raised, dl.requests)
        ELSE IF UseRealtime(audio_len, threshold, endpoint)
        THEN IF rt.raised # ""
             THEN Raises(rt.raised, dl.requests \o rt.requests)
             ELSE [raised |-> "", requests |-> dl.requests \o rt.requests,
                   result |-> [mode |-> "realtime"]]
        ELSE IF ~Truthy(bucket) THEN Raises("RuntimeError", dl.requests)
        ELSE IF ~Truthy(role) THEN Raises("RuntimeError", dl.requests)
        ELSE IF st.raised # ""
             THEN Raises(st.raised, dl.requests \o st.requests)
             ELSE [raised |-> "",
                   requests |-> dl.requests \o st.requests \o
                                (IF wait THEN <<"describe_transform_job">> ELSE <<>>),
                   result |-> TransformResult(wait, env)]

\* the S3 event records: one without the keys, and well-formed ones without
\* and with a size, which may differ from the size of the object
Records ==
    { [valid |-> FALSE, size |-> None],
      [valid |-> TRUE, size |-> None],
      [valid |-> TRUE, size |-> Some(0)] }

\* the object and the outcomes of the requests: the number of ClientErrors
\* before a request succeeds, and the final status of the transform job
AwsOutcomes ==
    [object_len : 0..MaxAudio,
     get_object_failures : {0, 3},
     invoke_failures : {0, 3},
     create_failures : {0, 1, 2},
     describe : {"Completed", "TimeoutError"}]

InitRoute ==
    /\ pc = "call"
    /\ op = "process_s3_event_and_transcribe"
    /\ record \in Records
    /\ use_realtime_threshold \in {None} \cup { Some(n) : n \in 0..MaxAudio }
    /\ wait_for_transform_completion \in BOOLEAN
    /\ _BOTO3_AVAILABLE \in BOOLEAN
    /\ SAGEMAKER_ENDPOINT \in {None, Some(""), Some("whisper-endpoint")}
    /\ SAGEMAKER_TRANSFORM_ROLE \in {None, Some("role")}
    /\ TRANSFORM_OUTPUT_BUCKET \in {None, Some("bucket/prefix")}
    /\ MAX_REALTIME_BYTES \in {1, MaxAudio}
    /\ aws \in { a \in AwsOutcomes :
                   wait_for_transform_completion \/ a.describe = "Completed" }
    /\ requests = <<>>
    /\ result = None
    /\ text = NoText
    /\ replace_with = _DEFAULT_REPLACEMENT
    /\ preserve_last_n = NoPreserve
    /\ AWS_COMPREHEND_ENABLED = FALSE
    /\ _spacy_available = FALSE
    /\ comprehend_resp = NoResponse
    /\ spacy_resp = NoResponse
    /\ primary = <<>>
    /\ secondary = <<>>
    /\ merged = <<>>
    /\ ran = {}
    /\ raised = ""
    /\ report = NoReport
    /\ redacted = <<>>
    /\ LoopIdle
    /\ NoCalls
    /\ NoBatch
    /\ ModulesIdle

ProcessS3Event ==
    /\ pc = "call"
    /\ op = "process_s3_event_and_transcribe"
    /\ \E r \in {process_s3_event_and_transcribe(
                     record, use_realtime_threshold, wait_for_transform_completion,
                     _BOTO3_AVAILABLE, SAGEMAKER_ENDPOINT, SAGEMAKER_TRANSFORM_ROLE,
                     TRANSFORM_OUTPUT_BUCKET, MAX_REALTIME_BYTES, aws)} :
           /\ raised' = r.raised
           /\ requests' = r.requests
           /\ result' = r.result
    /\ pc' = "done"
    /\ UNCHANGED <<op, text, replace_with, preserve_last_n, AWS_COMPREHEND_ENABLED,
                   _spacy_available, comprehend_resp, spacy_resp, primary,
                   secondary, merged, ran, report, redacted, loopVars, callVars,
                   batchVars, record, use_realtime_threshold,
                   wait_for_transform_completion, _BOTO3_AVAILABLE,
                   SAGEMAKER_ENDPOINT, SAGEMAKER_TRANSFORM_ROLE,
                   TRANSFORM_OUTPUT_BUCKET, MAX_REALTIME_BYTES, aws,
                   moduleVars>>

NextRoute == ProcessS3Event

SpecRoute == InitRoute /\ [][NextRoute]_vars

----------------------------------------------------------------------------
(* The modules other than pii_detector.py and whisper.py *)

\* the variables of pii_detector.py and whisper.py, but for pc, op and raised
baseVars == <<text, replace_with, preserve_last_n, AWS_COMPREHEND_ENABLED,
              _spacy_available, comprehend_resp, spacy_resp, primary, secondary,
              merged, ran, report, redacted, loopVars, callVars, batchVars,
              routeVars>>

\* pii_detector.py and whisper.py are not in use
BaseIdle ==
    /\ text = NoText
    /\ replace_with = _DEFAULT_REPLACEMENT
    /\ preserve_last_n = NoPreserve
    /\ AWS_COMPREHEND_ENABLED = FALSE
    /\ _spacy_available = FALSE
    /\ comprehend_resp = NoResponse
    /\ spacy_resp = NoResponse
    /\ primary = <<>>
    /\ secondary = <<>>
    /\ merged = <<>>
    /\ ran = {}
    /\ report = NoReport
    /\ redacted = <<>>
    /\ LoopIdle
    /\ NoCalls
    /\ NoBatch
    /\ RouteIdle

----------------------------------------------------------------------------
(* embedding.py *)

\* line 184: 2 ** 32, the range of the four digest bytes, scaled down
HashRange == 8

\* the texts that are embedded
EmbedTexts == { <<>>, <<"a">>, <<"b">> }

\* a number for the bytes of a text
RECURSIVE TextCode(_)
TextCode(t) ==
    IF t = <<>> THEN 0
    ELSE (IF Head(t) = "a" THEN 1 ELSE 2) + 3 * TextCode(Tail(t))

\* lines 175-182: the first four bytes of sha256(text + NUL + str(i)) as an
\* integer; a fixed function of the text and the index stands for the digest
Digest(t, i) == (5 * TextCode(t) + 3 * i + 1) % HashRange

\* the sum of the squares
RECURSIVE SumSquares(_)
SumSquares(values) ==
    IF values = <<>> THEN 0
    ELSE Head(values) * Head(values) + SumSquares(Tail(values))

\* lines 160-191: dim values v / 2^32 - 0.5, here their numerators 2v - 2^32,
\* divided by their norm, here carried as its square; zeros when the norm is 0
_fallback_embed(t, dim) ==
    LET buf == [i \in 1..dim |-> 2 * Digest(t, i - 1) - HashRange]
        norm2 == SumSquares(buf)
    IN  IF norm2 = 0 THEN [values |-> [i \in 1..dim |-> 0], norm2 |-> 1]
        ELSE [values |-> buf, norm2 |-> norm2]

\* lines 97 and 111: the vector a provider computes for a text, a fixed
\* function of the provider, the text and the length of its vectors
ProviderVector(provider, t, dim) ==
    [values |-> [i \in 1..dim |-> Digest(t, i + provider)], norm2 |-> 1]

\* lines 88-121, with the global statements of lines 103 and 114 applying to
\* the whole function: the vector returned and the new EMBEDDING_DIM
embed(t, use_st, use_openai, dim, sdim, odim, openai_ok) ==
    IF use_st
    THEN LET vec == ProviderVector(1, t, sdim)
         IN  IF Len(vec.values) = dim THEN [value |-> vec, dim |-> dim]
             ELSE [value |-> vec, dim |-> Len(vec.values)]
    ELSE IF use_openai /\ openai_ok
    THEN LET vec == ProviderVector(2, t, odim)
         IN  [value |-> vec, dim |-> Len(vec.values)]
    ELSE [value |-> _fallback_embed(t, dim), dim |-> dim]

\* line 133: encode on a list gives one row per text, and on the empty list
\* an empty 1-D array, which lines 136-138 turn into one row of length 0
EncodeRows(ts, sdim) ==
    IF ts = <<>> THEN << [values |-> <<>>, norm2 |-> 1] >>
    ELSE [i \in DOMAIN ts |-> ProviderVector(1, ts[i], sdim)]

\* line 154: the fallback on each text
FallbackRows(ts, dim) ==
    [value |-> [i \in DOMAIN ts |-> _fallback_embed(ts[i], dim)], dim |-> dim]

\* lines 124-154: the vectors returned and the new EMBEDDING_DIM
embed_batch(ts, use_st, use_openai, dim, sdim, odim, openai_ok) ==
    IF use_st
    THEN [value |-> EncodeRows(ts, sdim), dim |-> dim]
    ELSE IF use_openai /\ openai_ok
    THEN LET out == [i \in DOMAIN ts |-> ProviderVector(2, ts[i], odim)]
         IN  [value |-> out,
              dim |-> IF out # <<>> THEN Len(out[1].values) ELSE dim]
    ELSE FallbackRows(ts, dim)

\* lines 40-82: the import; OPENAI_EMBED_DIM overwrites the dimension of a
\* loaded sentence-transformers model when an API key is set
InitEmbed ==
    /\ pc = "call"
    /\ op = "embedding"
    /\ raised = ""
    /\ BaseIdle
    /\ NotEmbedIdle
    /\ _USE_ST_MODEL \in BOOLEAN
    /\ _USE_OPENAI \in BOOLEAN
    /\ st_dim = 1
    /\ openai_dim \in {3, 4}
    /\ EMBEDDING_DIM = (IF _USE_OPENAI THEN 3
                        ELSE IF _USE_ST_MODEL THEN st_dim ELSE 2)
    /\ advertised = EMBEDDING_DIM
    /\ embed_op = "none"
    /\ embed_arg = <<>>
    /\ embed_out = <<>>
    /\ first_embed = <<>>

\* a call of embed on a text; the OpenAI request succeeds or fails
Embed ==
    /\ op = "embedding"
    /\ \E t \in EmbedTexts, openai_ok \in BOOLEAN :
         \E r \in {embed(t, _USE_ST_MODEL, _USE_OPENAI, EMBEDDING_DIM,
                         st_dim, openai_dim, openai_ok)} :
           /\ embed_op' = "embed"
           /\ embed_arg' = t
           /\ embed_out' = <<r.value>>
           /\ EMBEDDING_DIM' = r.dim
           /\ first_embed' = IF \E k \in DOMAIN first_embed : first_embed[k].text = t
                             THEN first_embed
                             ELSE Append(first_embed, [text |-> t, vec |-> r.value])
    /\ UNCHANGED <<pc, op, raised, baseVars, notEmbedVars, _USE_ST_MODEL,
                   _USE_OPENAI, advertised, st_dim, openai_dim>>

\* a call of embed_batch on a list of texts
EmbedBatch ==
    /\ op = "embedding"
    /\ \E ts \in SeqsUpTo(EmbedTexts, MaxBatch), openai_ok \in BOOLEAN :
         \E r \in {embed_batch(ts, _USE_ST_MODEL, _USE_OPENAI, EMBEDDING_DIM,
                               st_dim, openai_dim, openai_ok)} :
           /\ embed_op' = "embed_batch"
           /\ embed_arg' = ts
           /\ embed_out' = r.value
           /\ EMBEDDING_DIM' = r.dim
    /\ UNCHANGED <<pc, op, raised, baseVars, notEmbedVars, _USE_ST_MODEL,
                   _USE_OPENAI, advertised, st_dim, openai_dim, first_embed>>

NextEmbed == Embed \/ EmbedBatch

SpecEmbed == InitEmbed /\ [][NextEmbed]_vars

----------------------------------------------------------------------------
(* indexer.py *)

\* the most items an index holds
MaxItems == 2

\* the texts that are added: a short one, and one longer than the window
IndexTexts == { <<"a">>, <<"a", "b", "a", "b", "a", "b", "a">> }

\* the values of chunking: None, or a window of 5 characters
Chunkings == { None, Some(5) }

\* {} as a meta
EmptyMeta == [key \in {} |-> ""]

\* the smaller of two numbers
Smaller(a, b) == IF a < b THEN a ELSE b

\* line 199: step = max(1, int(chunking * 0.8))
ChunkStep(chunking) ==
    IF (8 * chunking) \div 10 > 1 THEN (8 * chunking) \div 10 ELSE 1

\* lines 200-212: the starts of the windows, start += step while start < len(txt)
RECURSIVE ChunkStarts(_, _, _)
ChunkStarts(start, len, step) ==
    IF start < len THEN <<start>> \o ChunkStarts(start + step, len, step)
    ELSE <<>>

\* lines 197-215: what one text expands to: its windows under the ids
\* f"{id}_c{chunk_idx}" when it is longer than chunking, else itself
Expand(txt, m, id, chunking) ==
    IF chunking # None /\ chunking.value # 0 /\ Len(txt) > chunking.value
    THEN LET starts == ChunkStarts(0, Len(txt), ChunkStep(chunking.value))
         IN  [c \in DOMAIN starts |->
                [text |-> SubSeq(txt, starts[c] + 1,
                                 Smaller(starts[c] + chunking.value, Len(txt))),
                 meta |-> [_chunk_index |-> c - 1, _source_id |-> id] @@ m,
                 id |-> [source |-> id, c |-> c - 1],
                 start |-> starts[c],
                 chunking |-> chunking,
                 whole |-> txt]]
    ELSE << [text |-> txt, meta |-> m, id |-> id, start |-> 0,
             chunking |-> chunking, whole |-> txt] >>

\* lines 188-215: the expanded texts, metas and ids of a call of add
Expanded(docs, metas, ids, chunking) ==
    FlattenSeq([i \in DOMAIN docs |->
                   Expand(docs[i], metas[i], ids[i], chunking)])

\* line 74: matrix @ query_vec, for one row
RECURSIVE Dot(_, _)
Dot(a, b) ==
    IF a = <<>> \/ b = <<>> THEN 0
    ELSE Head(a) * Head(b) + Dot(Tail(a), Tail(b))

\* lines 65-76: the cosine similarity of a row to the query, as the dot
\* product and the square of the product of the norms; 0 under a zero norm
Score(q, v) ==
    LET dot == Dot(v.values, q.values)
        n2 == SumSquares(v.values) * SumSquares(q.values)
    IN  IF n2 = 0 THEN [dot |-> 0, n2 |-> 1] ELSE [dot |-> dot, n2 |-> n2]

\* one similarity is at least another
ScoreGeq(a, b) ==
    IF a.dot >= 0 /\ b.dot <= 0 THEN TRUE
    ELSE IF a.dot < 0 /\ b.dot >= 0 THEN FALSE
    ELSE IF a.dot >= 0 THEN a.dot * a.dot * b.n2 >= b.dot * b.dot * a.n2
    ELSE a.dot * a.dot * b.n2 =< b.dot * b.dot * a.n2

\* np.argsort(sims): the orders of the rows by similarity, lowest first
ArgsortAscending(sims) ==
    { p \in Permutations(DOMAIN sims) :
        \A i, j \in DOMAIN sims : i < j => ScoreGeq(sims[p[j]], sims[p[i]]) }

\* lines 389 and 399: np.argsort(-sims), the orders of the rows by
\* similarity, highest first; the order of equal similarities is not fixed
Argsort(sims) ==
    { p \in Permutations(DOMAIN sims) :
        \A i, j \in DOMAIN sims : i < j => ScoreGeq(sims[p[i]], sims[p[j]]) }

\* lines 398-401: the rows of the numpy scan and their similarities, for
\* an order of the rows and k >= 0
Scan(q, rows, order, k) ==
    [j \in 1..Smaller(k, Len(rows)) |->
        [idx |-> order[j], score |-> Score(q, rows[order[j]])]]

\* lines 396-406: the results of nearest_k for the rows found
Results(found) ==
    [j \in DOMAIN found |->
        [id |-> IF found[j].idx <= Len(vi_ids)
                THEN Some(vi_ids[found[j].idx]) ELSE None,
         meta |-> IF found[j].idx <= Len(vi_meta)
                  THEN vi_meta[found[j].idx] ELSE EmptyMeta,
         score |-> found[j].score]]

\* lines 92-133: a new index at a base path, with dim left None, on faiss
\* when it is asked for and available; lines 40-82 of embedding.py, with
\* the fallback alone or with an OpenAI model whose vectors are longer
\* than OPENAI_EMBED_DIM says
InitIndex ==
    /\ pc = "call"
    /\ op = "indexer"
    /\ raised = ""
    /\ BaseIdle
    /\ NotIndexIdle
    /\ _USE_ST_MODEL = FALSE
    /\ _USE_OPENAI \in BOOLEAN
    /\ st_dim = 0
    /\ openai_dim = IF _USE_OPENAI THEN 3 ELSE 0
    /\ EMBEDDING_DIM = 2
    /\ advertised = EMBEDDING_DIM
    /\ embed_op = "none"
    /\ embed_arg = <<>>
    /\ embed_out = <<>>
    /\ first_embed = <<>>
    /\ _faiss_available \in BOOLEAN
    /\ vi_dim = Some(EMBEDDING_DIM)
    /\ vi_ids = <<>>
    /\ vi_meta = <<>>
    /\ vi_vectors = None
    /\ vi_faiss_index = None
    /\ vi_use_faiss \in {FALSE, _faiss_available}
    /\ disk = None
    /\ added = <<>>
    /\ vi_call = None

\* lines 173-248: a call of add on no text or on one, the short text with
\* a meta and an id and the long one with neither; the OpenAI request
\* succeeds or fails
Add ==
    /\ op = "indexer"
    /\ \E docs \in SeqsUpTo(IndexTexts, 1), chunking \in Chunkings,
          openai_ok \in BOOLEAN :
         LET given == docs = << <<"a">> >>
             metas == [i \in DOMAIN docs |->
                         IF given THEN [title |-> docs[i]] ELSE EmptyMeta]
             ids == [i \in DOMAIN docs |->
                       IF given THEN [name |-> i]
                       ELSE [uuid |-> Len(added) + i]]
             expanded == Expanded(docs, metas, ids, chunking)
             call == [op |-> "add", chunking |-> chunking,
                      expanded |-> expanded]
         IN  /\ Len(vi_ids) + Len(expanded) =< MaxItems
             /\ openai_ok \/ (_USE_OPENAI /\ expanded # <<>>)
             /\ IF expanded = <<>>
                THEN /\ vi_call' = call @@ [raised |-> "", out |-> <<>>]
                     /\ UNCHANGED <<EMBEDDING_DIM, vi_dim, vi_ids, vi_meta,
                                    vi_vectors, vi_faiss_index, added>>
                ELSE \E r \in {embed_batch([i \in DOMAIN expanded |-> expanded[i].text],
                                           _USE_ST_MODEL, _USE_OPENAI, EMBEDDING_DIM,
                                           st_dim, openai_dim, openai_ok)} :
                       LET vecs == r.value
                           fresh == vi_dim = None
                           dim1 == IF fresh THEN Some(Len(vecs[1].values)) ELSE vi_dim
                           vectors1 == IF fresh THEN Some(<<>>) ELSE vi_vectors
                           faiss1 == IF fresh /\ vi_use_faiss THEN Some(<<>>)
                                     ELSE vi_faiss_index
                           rows(store) == IF store = None THEN <<>> ELSE store.value
                       IN  /\ EMBEDDING_DIM' = r.dim
                           /\ vi_dim' = dim1
                           /\ IF Len(vecs[1].values) # dim1.value
                              THEN /\ vi_call' = call @@ [raised |-> "ValueError",
                                                          out |-> <<>>]
                                   /\ vi_vectors' = vectors1
                                   /\ vi_faiss_index' = faiss1
                                   /\ UNCHANGED <<vi_ids, vi_meta, added>>
                              ELSE /\ IF vi_use_faiss
                                      THEN /\ vi_faiss_index' = Some(rows(faiss1) \o vecs)
                                           /\ vi_vectors' = IF vectors1 = None THEN Some(vecs)
                                                            ELSE Some(vectors1.value \o vecs)
                                      ELSE /\ vi_vectors' = Some(rows(vectors1) \o vecs)
                                           /\ vi_faiss_index' = faiss1
                                   /\ vi_ids' = vi_ids \o [i \in DOMAIN expanded |-> expanded[i].id]
                                   /\ vi_meta' = vi_meta \o [i \in DOMAIN expanded |-> expanded[i].meta]
                                   /\ added' = added \o [i \in DOMAIN expanded |->
                                                   expanded[i] @@ [vec |-> vecs[i]]]
                                   /\ vi_call' = call @@
                                        [raised |-> "",
                                         out |-> [i \in DOMAIN expanded |-> expanded[i].id]]
    /\ UNCHANGED <<pc, op, raised, baseVars, notIndexVars, _USE_ST_MODEL, _USE_OPENAI,
                   advertised, st_dim, openai_dim, embed_op, embed_arg,
                   embed_out, first_embed, _faiss_available, vi_use_faiss, disk>>

\* lines 253-286: a call of save on the base path of the index; the files
\* of an earlier save that this one does not write stay, and the write of
\* the faiss index succeeds or fails
Save ==
    /\ op = "indexer"
    /\ \E write_ok \in BOOLEAN :
         LET old == IF disk = None THEN [npy |-> None, faiss |-> None]
                    ELSE disk.value
             to_faiss == vi_use_faiss /\ vi_faiss_index # None
         IN  /\ write_ok \/ to_faiss
             /\ disk' = Some([meta |-> vi_meta,
                              ids |-> vi_ids,
                              faiss |-> IF to_faiss /\ write_ok THEN vi_faiss_index
                                        ELSE old.faiss,
                              npy |-> IF (to_faiss /\ write_ok) \/ vi_vectors = None
                                      THEN old.npy ELSE vi_vectors,
                              added |-> added])
             /\ vi_call' = [op |-> "save", raised |-> ""]
    /\ UNCHANGED <<pc, op, raised, baseVars, notIndexVars, embedVars, _faiss_available,
                   vi_dim, vi_ids, vi_meta, vi_vectors, vi_faiss_index,
                   vi_use_faiss, added>>

\* lines 288-335: a call of load on the base path, the index it returns
\* taking the place of the one at hand; use_faiss is given or None, and the
\* read of the faiss index succeeds or fails
Load ==
    /\ op = "indexer"
    /\ \E use_faiss \in {None, Some(TRUE), Some(FALSE)}, read_ok \in BOOLEAN :
         IF disk = None
         THEN /\ read_ok
              /\ use_faiss = None
              /\ vi_call' = [op |-> "load", raised |-> "FileNotFoundError"]
              /\ UNCHANGED <<vi_dim, vi_ids, vi_meta, vi_vectors,
                             vi_faiss_index, vi_use_faiss, added>>
         ELSE LET files == disk.value
                  prefer_faiss == /\ (IF use_faiss = None THEN TRUE ELSE use_faiss.value)
                                  /\ _faiss_available
                                  /\ files.faiss # None
              IN  /\ read_ok \/ prefer_faiss
                  /\ IF prefer_faiss /\ read_ok
                     THEN /\ vi_faiss_index' = files.faiss
                          /\ vi_vectors' = None
                          /\ vi_dim' = Some(Len(files.faiss.value[1].values))
                          /\ vi_meta' = files.meta
                          /\ vi_ids' = files.ids
                          /\ vi_use_faiss' = prefer_faiss
                          /\ added' = files.added
                          /\ vi_call' = [op |-> "load", raised |-> ""]
                     ELSE IF files.npy # None
                     THEN /\ vi_faiss_index' = None
                          /\ vi_vectors' = files.npy
                          /\ vi_dim' = Some(Len(files.npy.value[1].values))
                          /\ vi_meta' = files.meta
                          /\ vi_ids' = files.ids
                          /\ vi_use_faiss' = prefer_faiss
                          /\ added' = files.added
                          /\ vi_call' = [op |-> "load", raised |-> ""]
                     ELSE /\ vi_call' = [op |-> "load", raised |-> "RuntimeError"]
                          /\ UNCHANGED <<vi_dim, vi_ids, vi_meta, vi_vectors,
                                         vi_faiss_index, vi_use_faiss, added>>
    /\ UNCHANGED <<pc, op, raised, baseVars, notIndexVars, embedVars, _faiss_available, disk>>

\* lines 340-406: a call of nearest_k with k >= 0; the OpenAI request
\* succeeds or fails, and so does the search of the faiss index
NearestK ==
    /\ op = "indexer"
    /\ \E query \in IndexTexts, k \in 0..(MaxItems + 1),
          openai_ok \in BOOLEAN, search_ok \in BOOLEAN :
         \E r \in {embed(query, _USE_ST_MODEL, _USE_OPENAI, EMBEDDING_DIM,
                         st_dim, openai_dim, openai_ok)} :
           LET qvec == r.value
               fresh == vi_dim = None
               dim1 == IF fresh THEN Some(Len(qvec.values)) ELSE vi_dim
               vectors1 == IF fresh /\ ~vi_use_faiss /\ vi_vectors = None
                           THEN Some(<<>>) ELSE vi_vectors
               on_faiss == vi_use_faiss /\ vi_faiss_index # None
               call == [op |-> "nearest_k", k |-> k, qvec |-> qvec,
                        on_faiss |-> on_faiss]
               rows == IF on_faiss /\ search_ok /\ k > 0 THEN vi_faiss_index.value
                       ELSE IF vectors1 = None THEN <<>> ELSE vectors1.value
               sims == [i \in DOMAIN rows |-> Score(qvec, rows[i])]
           IN  /\ search_ok \/ (on_faiss /\ k > 0)
               /\ openai_ok \/ _USE_OPENAI
               /\ EMBEDDING_DIM' = r.dim
               /\ vi_dim' = dim1
               /\ vi_vectors' = vectors1
               /\ IF Len(qvec.values) # dim1.value
                  THEN vi_call' = call @@ [raised |-> "ValueError", top_idx |-> <<>>,
                                           out |-> <<>>]
                  ELSE \E order \in Argsort(sims) :
                         LET found == Scan(qvec, rows, order, k)
                             kept == IF on_faiss /\ search_ok /\ k > 0
                                     THEN SelectSeq(found,
                                            LAMBDA f : f.idx <= Len(vi_ids))
                                     ELSE found
                         IN  vi_call' = call @@
                               [raised |-> "",
                                top_idx |-> [j \in DOMAIN kept |-> kept[j].idx],
                                out |-> Results(kept)]
    /\ UNCHANGED <<pc, op, raised, baseVars, notIndexVars, _USE_ST_MODEL, _USE_OPENAI,
                   advertised, st_dim, openai_dim, embed_op, embed_arg,
                   embed_out, first_embed, _faiss_available, vi_ids, vi_meta,
                   vi_faiss_index, vi_use_faiss, disk, added>>

NextIndex == Add \/ Save \/ Load \/ NearestK

SpecIndex == InitIndex /\ [][NextIndex]_vars

----------------------------------------------------------------------------
(* routes.py: POST /upload, with handle_upload_fileobj of handlers.py *)

\* the most requests served
MaxUploads == 1

\* handlers.py line 67: MAX_REALTIME_BYTES, scaled down
HandlersMaxRealtimeBytes == 1

\* the file of a request: none, an empty one, one of 1 byte, one of 2 bytes
UploadFiles == { None, Some(<<>>), Some(<<1>>), Some(<<1, 1>>) }

\* what S3, whisper and Step Functions do during a request: each call
\* succeeds or fails with the error the code expects of it
UploadEnvs ==
    [s3_ok : BOOLEAN, head_ok : BOOLEAN, realtime_ok : BOOLEAN, start_ok : BOOLEAN]

\* a body that is never taken for empty
NeverEmpty(body) == FALSE

\* routes.py line 141: not body
EmptyBody(body) == body = <<>>

\* f"s3://{bucket}/{key}", the key holding the run id
S3Uri(bucket, run_id) == [bucket |-> bucket, key |-> run_id]

\* handlers.py lines 140-225 with presign False: the dict returned, whether
\* the object was uploaded and whether a workflow was started
handle_upload_fileobj(run_id, body, start_workflow, e) ==
    IF TRANSFORM_INPUT_BUCKET = None
    THEN [res |-> [ok |-> FALSE, error |-> "TRANSFORM_INPUT_BUCKET not configured"],
          uploaded |-> FALSE, started |-> FALSE]
    ELSE IF ~e.s3_ok
    THEN [res |-> [ok |-> FALSE, error |-> "s3_upload_failed"],
          uploaded |-> FALSE, started |-> FALSE]
    ELSE LET uploaded == [ok |-> TRUE,
                          upload_id |-> run_id,
                          s3_uri |-> S3Uri(TRANSFORM_INPUT_BUCKET.value, run_id),
                          s3_bucket |-> TRANSFORM_INPUT_BUCKET.value,
                          s3_key |-> run_id,
                          status |-> "uploaded"]
             realtime == /\ e.head_ok
                         /\ Len(body) =< HandlersMaxRealtimeBytes
                         /\ whisper_module
             noted == IF realtime THEN [note |-> "realtime_failed"] @@ uploaded
                      ELSE uploaded
         IN  IF realtime /\ e.realtime_ok
             THEN [res |-> [status |-> "processing_realtime",
                            transcript |-> "text", meta |-> "out"] @@ uploaded,
                   uploaded |-> TRUE, started |-> FALSE]
             ELSE IF start_workflow /\ sf_handlers /\ STATE_MACHINE_ARN # None
             THEN IF e.start_ok
                  THEN [res |-> [status |-> "workflow_started",
                                 workflow |-> "execution"] @@ noted,
                        uploaded |-> TRUE, started |-> TRUE]
                  ELSE [res |-> [note |-> "workflow_start_failed"] @@ noted,
                        uploaded |-> TRUE, started |-> FALSE]
             ELSE [res |-> noted, uploaded |-> TRUE, started |-> FALSE]

\* handlers.py lines 268-285: start_workflow_for_s3_uri starts a workflow
start_workflow_for_s3_uri(e) ==
    STATE_MACHINE_ARN # None /\ sf_handlers /\ e.start_ok

\* routes.py lines 116-210: the status and the JSON of the response, whether
\* the object was uploaded and whether a workflow was started; a request
\* without the required file is answered by the validation of File(...)
upload_audio(run_id, file, read_ok, start_workflow, e) ==
    IF file = None
    THEN [status |-> 422, body |-> [detail |-> "Field required"],
          uploaded |-> FALSE, started |-> FALSE]
    ELSE IF ~read_ok
    THEN [status |-> 400, body |-> [detail |-> "Unable to read uploaded file"],
          uploaded |-> FALSE, started |-> FALSE]
    ELSE IF EmptyBody(file.value)
    THEN [status |-> 400, body |-> [detail |-> "Empty file uploaded"],
          uploaded |-> FALSE, started |-> FALSE]
    ELSE IF handlers
    THEN LET h == handle_upload_fileobj(run_id, file.value, start_workflow, e)
         IN  [status |-> IF h.res.ok THEN 202 ELSE 500, body |-> h.res,
              uploaded |-> h.uploaded, started |-> h.started]
    ELSE IF S3_INPUT_BUCKET = None
    THEN [status |-> 500, body |-> [detail |-> "Server misconfigured: no TRANSFORM_INPUT_BUCKET"],
          uploaded |-> FALSE, started |-> FALSE]
    ELSE IF ~routes_BOTO3_AVAILABLE
    THEN [status |-> 500, body |-> [detail |-> "boto3 is not available in this environment"],
          uploaded |-> FALSE, started |-> FALSE]
    ELSE IF ~e.s3_ok
    THEN [status |-> 500, body |-> [detail |-> "S3 upload failed"],
          uploaded |-> FALSE, started |-> FALSE]
    ELSE LET stored == [ok |-> TRUE,
                        upload_id |-> run_id,
                        s3_uri |-> S3Uri(S3_INPUT_BUCKET.value, run_id),
                        s3_bucket |-> S3_INPUT_BUCKET.value,
                        s3_key |-> run_id,
                        status |-> "uploaded",
                        size_bytes |-> Len(file.value)]
         IN  IF start_workflow /\ handlers
             THEN [status |-> 202,
                   body |-> [status |-> "workflow_started_background"] @@ stored,
                   uploaded |-> TRUE, started |-> start_workflow_for_s3_uri(e)]
             ELSE [status |-> 202, body |-> stored,
                   uploaded |-> TRUE, started |-> FALSE]

\* the import of routes.py and handlers.py: handlers.py needs boto3, and its
\* bucket is one of the buckets routes.py looks for
InitUpload ==
    /\ pc = "call"
    /\ op = "routes"
    /\ raised = ""
    /\ BaseIdle
    /\ NotUploadIdle
    /\ handlers \in BOOLEAN
    /\ routes_BOTO3_AVAILABLE \in BOOLEAN
    /\ handlers => routes_BOTO3_AVAILABLE
    /\ TRANSFORM_INPUT_BUCKET \in {None, Some("in")}
    /\ S3_INPUT_BUCKET \in {None, Some("in")}
    /\ TRANSFORM_INPUT_BUCKET # None => S3_INPUT_BUCKET = TRANSFORM_INPUT_BUCKET
    /\ STATE_MACHINE_ARN \in {None, Some("arn")}
    /\ sf_handlers \in BOOLEAN
    /\ whisper_module \in BOOLEAN
    /\ s3_objects = <<>>
    /\ executions = <<>>
    /\ upload_log = <<>>

\* a POST to /upload, with a file or without, start_workflow set or not
UploadAudio ==
    /\ op = "routes"
    /\ Len(upload_log) < MaxUploads
    /\ \E file \in UploadFiles, read_ok \in BOOLEAN, start_workflow \in BOOLEAN,
          e \in UploadEnvs :
         LET run_id == Len(upload_log) + 1
         IN  \E r \in {upload_audio(run_id, file, read_ok, start_workflow, e)} :
               /\ upload_log' = Append(upload_log,
                                   [file |-> file, start_workflow |-> start_workflow,
                                    status |-> r.status, body |-> r.body])
               /\ s3_objects' = IF r.uploaded
                                THEN Append(s3_objects,
                                            [request |-> run_id, body |-> file.value])
                                ELSE s3_objects
               /\ executions' = IF r.started
                                THEN Append(executions, [request |-> run_id])
                                ELSE executions
    /\ UNCHANGED <<pc, op, raised, baseVars, notUploadVars, handlers,
                   routes_BOTO3_AVAILABLE, S3_INPUT_BUCKET, TRANSFORM_INPUT_BUCKET,
                   STATE_MACHINE_ARN, sf_handlers, whisper_module>>

NextUpload == UploadAudio

SpecUpload == InitUpload /\ [][NextUpload]_vars

----------------------------------------------------------------------------
(* whisper.py: retry_on_exception *)

\* the most tries a decorator is given
MaxTries == 3

\* line 168: backoff
Backoff == 2

\* the exception types the decorator lists, and one it does not list
ListedExceptions == { "ClientError", "TimeoutError" }
UnlistedExceptions == { "ValueError" }

\* what a call of f does: it returns, or raises an exception of some type
Outcomes == { "return" } \cup ListedExceptions \cup UnlistedExceptions

\* a loop that never breaks
NeverBreaks(k, tries) == FALSE

\* line 186: if attempt == tries: break
Breaks(k, tries) == k = tries

\* line 189: delay = min(delay * backoff, max_delay)
NextDelay(d) == IF d * Backoff < max_delay THEN d * Backoff ELSE max_delay

\* line 161-166 and 175-176: the decorator is given tries >= 1 and its
\* delays, and the wrapped function is entered
InitRetry ==
    /\ pc = "call"
    /\ op = "retry"
    /\ raised = ""
    /\ BaseIdle
    /\ NotRetryIdle
    /\ retry_tries \in 1..MaxTries
    /\ initial_delay \in {1, 2}
    /\ max_delay \in {2, 3}
    /\ delay = initial_delay
    /\ attempt = 0
    /\ last_exc = None
    /\ events = <<>>
    /\ retry_out = None

\* lines 177-191: one iteration of the loop, and the raise of line 191 when
\* the loop ends with it
RetryAttempt ==
    /\ op = "retry"
    /\ retry_out = None
    /\ attempt < retry_tries
    /\ \E outcome \in Outcomes :
         LET k == attempt + 1
             called == Append(events, [kind |-> "call", attempt |-> k,
                                       outcome |-> outcome])
             exc == [type |-> outcome, attempt |-> k]
         IN  /\ attempt' = k
             /\ IF outcome = "return"
                THEN /\ retry_out' = [returned |-> k]
                     /\ events' = called
                     /\ UNCHANGED <<delay, last_exc>>
                ELSE IF outcome \notin ListedExceptions
                THEN /\ retry_out' = [raised |-> exc]
                     /\ events' = called
                     /\ UNCHANGED <<delay, last_exc>>
                ELSE /\ last_exc' = Some(exc)
                     /\ IF Breaks(k, retry_tries)
                        THEN /\ retry_out' = [raised |-> exc]
                             /\ events' = called
                             /\ UNCHANGED delay
                        ELSE /\ events' = Append(called, [kind |-> "sleep",
                                                          delay |-> delay])
                             /\ delay' = NextDelay(delay)
                             /\ retry_out' = IF k = retry_tries
                                             THEN [raised |-> exc] ELSE None
    /\ UNCHANGED <<pc, op, raised, baseVars, notRetryVars, retry_tries,
                   initial_delay, max_delay>>

NextRetry == RetryAttempt

SpecRetry == InitRetry /\ [][NextRetry]_vars

----------------------------------------------------------------------------
(* step_fn_handlers.py: wait_for_transform_callback and aggregate_results *)

\* the largest max_retries of an event
MaxRetries == 2

\* line 315: poll_interval_seconds of the events
PollInterval == 1

\* the events of wait_for_transform_callback: with a task token or without,
\* with an s3:// prefix, a prefix that is no URI or none, with a job name
\* or without
WaitEvents ==
    [action : {"wait_for_transform_callback"},
     taskToken : BOOLEAN,
     expected_s3_prefix : {"", "s3://out/run", "run"},
     expected_sagemaker_transform_job_name : BOOLEAN,
     max_retries : 0..MaxRetries,
     timeout_seconds : {2, 6},
     backoff_factor : {1, 2}]

\* what describe_transform_job gives: a status, a ClientError or another error
JobOutcomes == {"InProgress", "Completed", "Failed", "Stopped", "ClientError", "BotoCoreError"}

\* what list_objects_v2 gives: objects, none, or an error
ListOutcomes == {"found", "empty", "error"}

\* what a request to Step Functions gives
SendOutcomes == {"ok", "ClientError", "BotoCoreError"}

\* the same where every error is handled alike
SentOrNot == {"ok", "ClientError"}

\* x to the power n
RECURSIVE Power(_, _)
Power(x, n) == IF n = 0 THEN 1 ELSE x * Power(x, n - 1)

\* lines 54-60: without boto3 there is no client and the send raises RuntimeError
SendResult(send) == IF stepfn_BOTO3_AVAILABLE THEN send ELSE "RuntimeError"

\* lines 105-128: a call of _send_task_success or _send_task_failure with a
\* token; it is delivered unless the client or the request raises
Callback(kind, error, send) ==
    [kind |-> kind, error |-> error, delivered |-> SendResult(send) = "ok"]

\* lines 408-413 and 497-502: the except clause attempts a task failure
ReportError(sent, error, send) == Append(sent, Callback("failure", error, send))

\* max_retries reached one poll early
ExceededEarly(k, max_retries) == max_retries # 0 /\ k >= max_retries

\* line 398: max_retries and attempt > max_retries
Exceeded(k, max_retries) == max_retries # 0 /\ k > max_retries

\* line 404: poll_interval * (backoff ** max(0, attempt - 1))
SleepTime(k, backoff) ==
    PollInterval * Power(backoff, IF k - 1 > 0 THEN k - 1 ELSE 0)

\* lines 348-365: the transform job part of an iteration: "return" with a
\* value, "raise" to the except clause, or "on" to the rest of the iteration;
\* a ClientError of the describe call or of the send is logged and dropped
JobPart(event, sent, job_status, send) ==
    LET Send(kind, error, ret) ==
            LET cb == Callback(kind, error, send)
            IN  IF cb.delivered
                THEN [end |-> "return", out |-> ret, sent |-> Append(sent, cb)]
                ELSE IF SendResult(send) = "ClientError"
                THEN [end |-> "on", out |-> None, sent |-> Append(sent, cb)]
                ELSE [end |-> "raise", out |-> SendResult(send),
                      sent |-> Append(sent, cb)]
    IN  IF ~(event.expected_sagemaker_transform_job_name /\ stepfn_BOTO3_AVAILABLE)
        THEN [end |-> "on", out |-> None, sent |-> sent]
        ELSE IF job_status = "Completed"
        THEN Send("success", "", [ok |-> TRUE, reason |-> ""])
        ELSE IF job_status \in {"Failed", "Stopped"}
        THEN Send("failure", "TransformJobFailed", [ok |-> FALSE, reason |-> job_status])
        ELSE IF job_status = "BotoCoreError"
        THEN [end |-> "raise", out |-> "BotoCoreError", sent |-> sent]
        ELSE [end |-> "on", out |-> None, sent |-> sent]

\* lines 368-403: the rest of an iteration: the listing under the prefix,
\* then the count of attempts; "sleep" when the loop goes on
PrefixPart(event, sent, k, listing, send) ==
    LET Send(kind, error, ret) ==
            LET cb == Callback(kind, error, send)
            IN  IF cb.delivered
                THEN [end |-> "return", out |-> ret, sent |-> Append(sent, cb)]
                ELSE [end |-> "raise", out |-> SendResult(send),
                      sent |-> Append(sent, cb)]
        counted == [attempt |-> k]
        before == [attempt |-> k - 1]
    IN  IF event.expected_s3_prefix = "run" /\ OUTPUT_S3_BUCKET = None
        THEN [end |-> "raise", out |-> "ValueError", sent |-> sent] @@ before
        ELSE IF event.expected_s3_prefix # "" /\ stepfn_BOTO3_AVAILABLE
                /\ listing = "found"
        THEN Send("success", "", [ok |-> TRUE, reason |-> ""]) @@ before
        ELSE IF Exceeded(k, event.max_retries)
        THEN Send("failure", "MaxRetriesExceeded",
                  [ok |-> FALSE, reason |-> "max_retries_exceeded"]) @@ counted
        ELSE [end |-> "sleep", out |-> None, sent |-> sent] @@ counted

\* lines 339-345: the timeout at the head of an iteration
TimeoutPart(sent, send) ==
    LET cb == Callback("failure", "TransformTimeout", send)
    IN  IF cb.delivered
        THEN [end |-> "return", out |-> [ok |-> FALSE, reason |-> "timeout"],
              sent |-> Append(sent, cb)]
        ELSE [end |-> "raise", out |-> SendResult(send), sent |-> Append(sent, cb)]

\* the import of step_fn_handlers.py
InitStepfn ==
    /\ pc = "call"
    /\ op = "stepfn"
    /\ raised = ""
    /\ BaseIdle
    /\ NotStepfnIdle
    /\ stepfn_BOTO3_AVAILABLE \in BOOLEAN
    /\ OUTPUT_S3_BUCKET \in {None, Some("out")}
    /\ sf_event = None
    /\ sf_pc = "idle"
    /\ elapsed = 0
    /\ wait_attempt = 0
    /\ polls = 0
    /\ callbacks = <<>>
    /\ sf_out = None

\* lines 308-335: wait_for_transform_callback is invoked and checks its event
WaitEnter ==
    /\ op = "stepfn"
    /\ sf_pc = "idle"
    /\ \E event \in WaitEvents :
         /\ sf_event' = Some(event)
         /\ IF ~event.taskToken
            THEN /\ sf_pc' = "done"
                 /\ sf_out' = [raised |-> "ValueError", at |-> "taskToken"]
            ELSE IF event.expected_s3_prefix = ""
                    /\ ~event.expected_sagemaker_transform_job_name
            THEN /\ sf_pc' = "done"
                 /\ sf_out' = [raised |-> "ValueError", at |-> "expected"]
            ELSE /\ sf_pc' = "loop"
                 /\ sf_out' = None
    /\ UNCHANGED <<pc, op, raised, baseVars, notStepfnVars, stepfn_BOTO3_AVAILABLE,
                   OUTPUT_S3_BUCKET, elapsed, wait_attempt, polls, callbacks>>

\* lines 338-415: one iteration of the loop, with the return or the except
\* clause that ends it; the describe and list calls give one of their
\* outcomes, each send gives one of its outcomes, and the calls take time
WaitPoll ==
    /\ op = "stepfn"
    /\ sf_pc = "loop"
    /\ \E job_status \in JobOutcomes, listing \in ListOutcomes,
          send \in SendOutcomes, again \in SentOrNot,
          reported \in SentOrNot, jitter \in {1, 2} :
         LET event == sf_event.value
             timed_out == elapsed > event.timeout_seconds
             k == wait_attempt + 1
             job == JobPart(event, callbacks, job_status, send)
             step == IF timed_out THEN TimeoutPart(callbacks, send)
                     ELSE IF job.end = "on"
                     THEN PrefixPart(event, job.sent, k, listing, again)
                     ELSE job
         IN  /\ polls' = IF timed_out THEN polls ELSE polls + 1
             /\ wait_attempt' = IF ~timed_out /\ job.end = "on" THEN step.attempt
                                ELSE wait_attempt
             /\ IF step.end = "sleep"
                THEN /\ elapsed' = elapsed + SleepTime(k, event.backoff_factor) + jitter
                     /\ callbacks' = step.sent
                     /\ UNCHANGED <<sf_pc, sf_out>>
                ELSE /\ sf_pc' = "done"
                     /\ UNCHANGED elapsed
                     /\ IF step.end = "return"
                        THEN /\ callbacks' = step.sent
                             /\ sf_out' = [returned |-> step.out]
                        ELSE /\ callbacks' = ReportError(step.sent, "TransformWaitError",
                                                         reported)
                             /\ sf_out' = [raised |-> step.out, at |-> "loop"]
    /\ UNCHANGED <<pc, op, raised, baseVars, notStepfnVars, stepfn_BOTO3_AVAILABLE,
                   OUTPUT_S3_BUCKET, sf_event>>

\* the events of aggregate_results: with a task token, a run_id and a bucket
\* or without, with s3_keys missing, empty, of one or two keys, or a number
AggregateEvents ==
    [action : {"aggregate_results"},
     taskToken : BOOLEAN,
     run_id : BOOLEAN,
     s3_bucket : BOOLEAN,
     s3_keys : {"missing", "empty", "one", "two", "number"}]

\* lines 417-504: aggregate_results is invoked and runs to its end; each
\* object is read or not, and each send succeeds or fails
AggregateResults ==
    /\ op = "stepfn"
    /\ sf_pc = "idle"
    /\ \E event \in AggregateEvents, read \in [1..2 -> BOOLEAN],
          send \in SentOrNot, reported \in SentOrNot :
         LET bucket == event.s3_bucket \/ OUTPUT_S3_BUCKET # None
             keys == IF event.s3_keys = "one" THEN 1
                     ELSE IF event.s3_keys = "two" THEN 2 ELSE 0
             parts == Cardinality({i \in 1..keys : read[i] /\ stepfn_BOTO3_AVAILABLE})
             token(sent) == IF event.taskToken THEN sent ELSE <<>>
         IN  /\ sf_event' = Some(event)
             /\ sf_pc' = "done"
             /\ IF ~event.run_id
                THEN /\ sf_out' = [raised |-> "ValueError", at |-> "run_id"]
                     /\ callbacks' = <<>>
                ELSE IF ~bucket
                THEN /\ sf_out' = [raised |-> "ValueError", at |-> "s3_bucket"]
                     /\ callbacks' = <<>>
                ELSE IF event.s3_keys \in {"missing", "empty"}
                THEN /\ sf_out' = [returned |-> [num_parts |-> 0]]
                     /\ callbacks' = <<>>
                ELSE IF event.s3_keys = "number"
                THEN /\ sf_out' = [raised |-> "TypeError", at |-> "s3_keys"]
                     /\ callbacks' = token(ReportError(<<>>, "AggregateResultsError",
                                                       reported))
                ELSE /\ sf_out' = [returned |-> [num_parts |-> parts]]
                     /\ callbacks' = token(<<Callback("success", "", send)>>)
    /\ UNCHANGED <<pc, op, raised, baseVars, notStepfnVars, stepfn_BOTO3_AVAILABLE,
                   OUTPUT_S3_BUCKET, elapsed, wait_attempt, polls>>

NextStepfn == WaitEnter \/ WaitPoll \/ AggregateResults

SpecStepfn == InitStepfn /\ [][NextStepfn]_vars

----------------------------------------------------------------------------
(* Vocabulary of the properties of _merge_entities *)

\* the candidates of the call, normalised, in argument order
Cands ==
    [i \in 1..(Len(primary) + Len(secondary)) |->
        Normalize((primary \o secondary)[i])]

\* the characters a span covers
Covered(c) == c.start .. (c.end - 1)

\* two spans intersect as half-open ranges
Intersects(a, b) == Covered(a) \cap Covered(b) # {}

SpanLen(c) == c.end - c.start

\* the entity is in the list returned
InOutput(c) == \E k \in DOMAIN merged : merged[k] = c

\* two entities with the same span and the same score
SameSpanScore(a, b) ==
    a.start = b.start /\ a.end = b.end /\ a.score = b.score

\* an entity with the span and the score of c is in the list returned
SpanInOutput(c) == \E k \in DOMAIN merged : SameSpanScore(merged[k], c)

\* of two candidates, a wins the tie-break: longer, or as long and earlier
WinsTie(a, b) ==
    /\ a.score = b.score
    /\ \/ SpanLen(a) > SpanLen(b)
       \/ SpanLen(a) = SpanLen(b) /\ a.start < b.start

----------------------------------------------------------------------------
(* C2 *)

\* C2 as stated: of two overlapping candidates with equal score the longer
\* one (at equal length the earlier one) is kept and the other is dropped.
\* Violated: a third, higher-score candidate that overlaps the longer one
\* removes it, and the shorter one is then kept.
TieBreakAlwaysDecides ==
    pc = "done" =>
        \A i, j \in DOMAIN Cands :
            (Intersects(Cands[i], Cands[j]) /\ WinsTie(Cands[i], Cands[j]))
                => SpanInOutput(Cands[i]) /\ ~SpanInOutput(Cands[j])

\* accepted entities other than a and b that overlap a
Rivals(a, b) ==
    { k \in DOMAIN merged :
        /\ Intersects(merged[k], a)
        /\ ~SameSpanScore(merged[k], a)
        /\ ~SameSpanScore(merged[k], b) }

\* C2, amended: of two overlapping candidates with equal score, the longer
\* one (at equal length the earlier one) is kept and the other is dropped,
\* unless another accepted entity overlaps the longer (earlier) one.
TieBreakDecidesWithoutRival ==
    pc = "done" =>
        \A i, j \in DOMAIN Cands :
            ( /\ Intersects(Cands[i], Cands[j])
              /\ WinsTie(Cands[i], Cands[j])
              /\ Rivals(Cands[i], Cands[j]) = {} )
                => SpanInOutput(Cands[i]) /\ ~SpanInOutput(Cands[j])

\* a call where the tie-break decided between a longer and a shorter
\* candidate, and one where it decided between two of equal length
TieBreakWitness ==
    /\ pc = "done"
    /\ \E i, j \in DOMAIN Cands :
          /\ Intersects(Cands[i], Cands[j])
          /\ Cands[i].score = Cands[j].score
          /\ SpanLen(Cands[i]) > SpanLen(Cands[j])
          /\ j < i
          /\ SpanInOutput(Cands[i]) /\ ~SpanInOutput(Cands[j])
    /\ \E i, j \in DOMAIN Cands :
          /\ Intersects(Cands[i], Cands[j])
          /\ Cands[i].score = Cands[j].score
          /\ SpanLen(Cands[i]) = SpanLen(Cands[j])
          /\ Cands[i].start < Cands[j].start
          /\ j < i
          /\ SpanInOutput(Cands[i]) /\ ~SpanInOutput(Cands[j])

----------------------------------------------------------------------------
(* C3 *)

\* the reference order of the rule: score descending, then span length
\* descending, then start ascending; candidates equal in all three stay in
\* argument order
RefBefore(i, j) ==
    LET a == Cands[i]
        b == Cands[j]
    IN  \/ a.score > b.score
        \/ a.score = b.score /\ SpanLen(a) > SpanLen(b)
        \/ a.score = b.score /\ SpanLen(a) = SpanLen(b) /\ a.start < b.start
        \/ a.score = b.score /\ SpanLen(a) = SpanLen(b) /\ a.start = b.start
              /\ i < j

\* the set the reference rule accepts: a candidate is accepted iff it has
\* positive length and intersects no accepted candidate that is before it
RefAccepted ==
    CHOOSE A \in SUBSET DOMAIN Cands :
        \A i \in DOMAIN Cands :
            i \in A <=> /\ Cands[i].start < Cands[i].end
                        /\ \A j \in A :
                              RefBefore(j, i) => ~Intersects(Cands[i], Cands[j])

\* the accepted candidates of the reference rule, by start
RefResult ==
    LET A == RefAccepted
        c == Cands
    IN  [k \in 1..Cardinality(A) |->
            c[CHOOSE i \in A :
                Cardinality({j \in A : c[j].start < c[i].start}) = k - 1]]

\* C3: _merge_entities returns the candidates the reference greedy rule
\* accepts (walk in the order score descending, length descending, start
\* ascending; accept iff start < end and no accepted range intersects),
\* ordered by start.
MergeIsReferenceGreedy == pc = "done" => merged = RefResult

\* a call that rejected a candidate, accepted two, and had to re-sort them
MergeIsReferenceGreedyWitness ==
    /\ pc = "done"
    /\ Len(merged) = 2
    /\ Len(Cands) = 3
    /\ \A i \in DOMAIN Cands : Cands[i].start < Cands[i].end
    /\ \E i, j \in RefAccepted : RefBefore(i, j) /\ Cands[j].start < Cands[i].start

----------------------------------------------------------------------------
(* C4 *)

\* C4: the accepted subset is maximal: every candidate of positive length
\* that is not in the output overlaps an entity that is in the output.
MergeIsMaximal ==
    pc = "done" =>
        \A i \in DOMAIN Cands :
            (Cands[i].start < Cands[i].end /\ ~InOutput(Cands[i]))
                => \E k \in DOMAIN merged : Intersects(Cands[i], merged[k])

\* a call that dropped a candidate of positive length and kept two that
\* touch each other
MergeIsMaximalWitness ==
    /\ pc = "done"
    /\ \E i \in DOMAIN Cands :
          Cands[i].start < Cands[i].end /\ ~InOutput(Cands[i])
    /\ \E k \in DOMAIN merged :
          k + 1 \in DOMAIN merged /\ merged[k].end = merged[k + 1].start

----------------------------------------------------------------------------
(* C5 *)

\* the candidate has positive length and a score above that of every
\* candidate that overlaps it
Dominates(i) ==
    /\ Cands[i].start < Cands[i].end
    /\ \A j \in DOMAIN Cands \ {i} :
          Intersects(Cands[i], Cands[j]) => Cands[j].score < Cands[i].score

\* C5: a candidate of positive length whose score is above the score of
\* every candidate overlapping it is in the output, and every candidate
\* overlapping it is absent.
HigherScoreWins ==
    pc = "done" =>
        \A i \in DOMAIN Cands :
            Dominates(i) =>
                /\ InOutput(Cands[i])
                /\ \A j \in DOMAIN Cands \ {i} :
                      Intersects(Cands[i], Cands[j]) => ~InOutput(Cands[j])

\* a call where a shorter, later-listed candidate of higher score displaced
\* a longer one
HigherScoreWinsWitness ==
    /\ pc = "done"
    /\ \E i, j \in DOMAIN Cands :
          /\ Dominates(i)
          /\ j < i
          /\ Intersects(Cands[i], Cands[j])
          /\ SpanLen(Cands[j]) > SpanLen(Cands[i])
          /\ InOutput(Cands[i]) /\ ~InOutput(Cands[j])

----------------------------------------------------------------------------
(* C6 *)

\* the orders in which the same candidates can be supplied
Orders == Permutations(1..(Len(primary) + Len(secondary)))

\* the candidates of the call, supplied in the order f
Reordered(f) ==
    [i \in 1..(Len(primary) + Len(secondary)) |-> (primary \o secondary)[f[i]]]

\* the span and the score of every entity of a list
SpansAndScores(ents) ==
    [k \in DOMAIN ents |->
        [start |-> ents[k].start, end |-> ents[k].end, score |-> ents[k].score]]

\* no two candidates of the call agree in score, start and end
NoTwins ==
    \A i, j \in DOMAIN Cands : i # j => ~SameSpanScore(Cands[i], Cands[j])

\* C6 as stated: the entities returned (spans, types, scores, sources) are
\* the same for every order in which the candidates are supplied.
\* Violated: of two candidates with the same score, start and end, the one
\* supplied first is kept, so the type and the source depend on the order.
MergeIgnoresOrder ==
    pc = "done" =>
        \A f \in Orders : _merge_entities(Reordered(f), <<>>) = merged

\* C6, amended: for every order in which the candidates are supplied the
\* merge returns the same spans with the same scores; types and sources are
\* the same too unless two candidates agree in score, start and end, of
\* which the one supplied first is kept.
MergeSpansIgnoreOrder ==
    pc = "done" =>
        LET spans == SpansAndScores(merged)
            twins == ~NoTwins
        IN  \A f \in Orders :
                LET other == _merge_entities(Reordered(f), <<>>)
                IN  /\ SpansAndScores(other) = spans
                    /\ twins \/ other = merged

\* a call with three candidates of which two agree in score, start and
\* end and differ in type, where some order changes the type returned
MergeSpansIgnoreOrderWitness ==
    /\ pc = "done"
    /\ Len(Cands) = 3
    /\ ~NoTwins
    /\ merged # <<>>
    /\ \E f \in Orders : _merge_entities(Reordered(f), <<>>) # merged

----------------------------------------------------------------------------
(* C9 *)

\* a candidate with start >= end
Degenerate(c) == c.start >= c.end

\* the candidates of positive length, in argument order
RECURSIVE WithoutDegenerate(_)
WithoutDegenerate(cands) ==
    IF cands = <<>> THEN <<>>
    ELSE IF Degenerate(Normalize(Head(cands)))
         THEN WithoutDegenerate(Tail(cands))
         ELSE <<Head(cands)>> \o WithoutDegenerate(Tail(cands))

\* C9: a candidate with start >= end is dropped: it is not in the output,
\* and the output is the one the call returns without it (it blocks no
\* other candidate, and the call returns).
DegenerateDropped ==
    pc = "done" =>
        /\ \A k \in DOMAIN merged : ~Degenerate(merged[k])
        /\ merged = _merge_entities(WithoutDegenerate(primary \o secondary), <<>>)

\* a call with an empty candidate, of the highest score of the call, that
\* lies inside a candidate that was accepted
DegenerateDroppedWitness ==
    /\ pc = "done"
    /\ \E i \in DOMAIN Cands, k \in DOMAIN merged :
          /\ Degenerate(Cands[i])
          /\ Cands[i].score > merged[k].score
          /\ Overlap(Cands[i].start, Cands[i].end, merged[k].start, merged[k].end)

----------------------------------------------------------------------------
(* C1 *)

\* C1: the entities of a report are pairwise non-overlapping as half-open
\* ranges and sorted by start ascending.
EntitiesDisjointSorted ==
    (pc = "done" /\ raised = "") =>
        \A i, j \in DOMAIN report.entities :
            i < j => /\ ~Intersects(report.entities[i], report.entities[j])
                     /\ report.entities[i].start <= report.entities[j].start

\* a report in which an entity of a lower score precedes one of a higher
\* score, from a call that rejected a candidate
EntitiesDisjointSortedWitness ==
    /\ pc = "done"
    /\ op = "detect_pii"
    /\ raised = ""
    /\ \E i, j \in DOMAIN report.entities :
          i < j /\ report.entities[i].score < report.entities[j].score
    /\ Len(primary) + Len(secondary) > Len(report.entities)

----------------------------------------------------------------------------
(* C7 *)

ComprehendFailed ==
    AWS_COMPREHEND_ENABLED /\ comprehend_resp.kind \in {"no_boto3", "client_error"}

SpacyFailed == _spacy_available /\ spacy_resp.kind = "error"

\* the report of the call with the detectors that failed switched off
ReportWithoutFailed ==
    detect_pii(text,
               AWS_COMPREHEND_ENABLED /\ ~ComprehendFailed,
               _spacy_available /\ ~SpacyFailed,
               IF ComprehendFailed THEN NoResponse ELSE comprehend_resp,
               IF SpacyFailed THEN NoResponse ELSE spacy_resp).report

\* C7: when an enabled external detector fails, detect_pii returns, the
\* detector contributes no candidate, and the report is the one computed
\* from the other sources alone.
DetectorFailureDegrades ==
    (pc = "done" /\ op = "detect_pii" /\ text.type = "str"
        /\ (ComprehendFailed \/ SpacyFailed)) =>
        /\ raised = ""
        /\ ComprehendFailed =>
              \A k \in DOMAIN secondary : secondary[k].source # "comprehend"
        /\ SpacyFailed =>
              \A k \in DOMAIN secondary : secondary[k].source # "spacy"
        /\ report = ReportWithoutFailed

\* a call in which Comprehend failed and the report holds an entity of
\* spaCy beside one of a regex
DetectorFailureDegradesWitness ==
    /\ pc = "done"
    /\ op = "detect_pii"
    /\ ComprehendFailed
    /\ raised = ""
    /\ \E i, j \in DOMAIN report.entities :
          report.entities[i].source = "spacy" /\ report.entities[j].source = "regex"

----------------------------------------------------------------------------
(* C8 *)

\* C8: detect_pii raises exactly when its argument is no string; it then
\* raises a TypeError and has invoked no detector; on a string it returns a
\* report, whatever the external detectors do.
DetectFailsOnlyOnNonString ==
    (pc = "done" /\ op = "detect_pii") =>
        /\ raised # "" <=> text.type # "str"
        /\ text.type # "str" => raised = "TypeError" /\ ran = {} /\ report = NoReport
        /\ text.type = "str" =>
              /\ report # NoReport
              /\ report.text = text.value
              /\ "regex" \in ran

\* a call on a value that is no string, with both external detectors enabled
DetectFailsOnlyOnNonStringWitness ==
    /\ pc = "done"
    /\ op = "detect_pii"
    /\ text.type = "bytes"
    /\ AWS_COMPREHEND_ENABLED
    /\ _spacy_available
    /\ raised = "TypeError"

----------------------------------------------------------------------------
(* C10 *)

\* text[a:b], character by character
RefChars(t, a, b) ==
    [j \in 1..((IF b < Len(t) THEN b ELSE Len(t)) - a) |-> t[a + j]]

\* what an entity is replaced by: the token, followed by the last N
\* characters of the span where N > 0 is configured for its type
RefRender(t, e) ==
    LET n == IF e.type \in DOMAIN preserve_last_n THEN preserve_last_n[e.type] ELSE 0
        span == RefChars(t, e.start, e.end)
        kept == IF n <= 0 THEN 0 ELSE IF n < Len(span) THEN n ELSE Len(span)
    IN  replace_with \o [j \in 1..kept |-> span[Len(span) - kept + j]]

\* text[0:e1.start] + render(e1) + ... + text[e(k-1).end:ek.start] + render(ek)
RECURSIVE RefRedacted(_, _, _)
RefRedacted(t, ents, k) ==
    IF k = 0 THEN <<>>
    ELSE RefRedacted(t, ents, k - 1)
         \o RefChars(t, IF k = 1 THEN 0 ELSE ents[k - 1].end, ents[k].start)
         \o RefRender(t, ents[k])

\* the characters of the text outside every entity, in order
RECURSIVE OutsideFrom(_, _, _)
OutsideFrom(t, ents, p) ==
    IF p > Len(t) THEN <<>>
    ELSE (IF \E k \in DOMAIN ents : (p - 1) \in Covered(ents[k])
          THEN <<>> ELSE <<t[p]>>)
         \o OutsideFrom(t, ents, p + 1)

\* C10: the redacted text is text[0:e1.start] + render(e1) +
\* text[e1.end:e2.start] + render(e2) + ... + text[last.end:] over the
\* entities of the report; the characters outside the entities appear
\* unchanged and in order; a text without entities is returned unchanged.
RedactionReconstructs ==
    (pc = "done" /\ op = "redact_pii" /\ raised = "") =>
        LET t == text.value
            ents == report.entities
            n == Len(ents)
        IN  /\ redacted = RefRedacted(t, ents, n)
                            \o RefChars(t, IF n = 0 THEN 0 ELSE ents[n].end, Len(t))
            /\ n = 0 => redacted = t
            /\ (replace_with = <<"#">> /\ preserve_last_n = NoPreserve) =>
                  SelectSeq(redacted, LAMBDA c : c # "#") = OutsideFrom(t, ents, 1)

\* a redaction of a text with characters before, between and after two
\* entities
RedactionReconstructsWitness ==
    /\ pc = "done"
    /\ op = "redact_pii"
    /\ raised = ""
    /\ Len(report.entities) = 2
    /\ report.entities[1].start > 0
    /\ report.entities[1].end < report.entities[2].start
    /\ report.entities[2].end < Len(text.value)
    /\ redacted # text.value

----------------------------------------------------------------------------
(* C11 *)

\* the entities of the call in the order the loop visits them
Visited == SortByStart(entities)

\* the number of characters to keep that is configured for a type, 0 if none
ConfiguredKeep(type) ==
    IF type \in DOMAIN preserve_last_n THEN preserve_last_n[type] ELSE 0

\* C11: an entity whose type has a configured N > 0 is rendered as the token
\* followed by the last N characters of its span when the span has at least
\* N characters, and by the whole span when it is shorter; with no N, or
\* N <= 0, it is rendered as the token alone. (Stated of the entities whose
\* start is not behind the cursor, as with the entities of a report; the
\* text returned is the one redact_pii gets from _redact_spanwise.)
PreserveLastRule ==
    (pc = "done" /\ op = "_redact_spanwise") =>
        /\ redacted = _redact_spanwise(text.value, entities, replace_with,
                                       preserve_last_n)
        /\ \A i \in DOMAIN pieces :
               LET p == pieces[i] IN
               (p.ent > 0 /\ p.from = Visited[p.ent].start) =>
                   LET e == Visited[p.ent]
                       span == RefChars(text.value, e.start, e.end)
                       n == ConfiguredKeep(e.type)
                   IN  p.chars =
                           IF n > 0
                           THEN IF Len(span) >= n
                                THEN replace_with \o
                                     [j \in 1..n |-> span[Len(span) - n + j]]
                                ELSE replace_with \o span
                           ELSE replace_with

\* a call that rendered one entity with fewer characters than its span
\* holds, which differ from its first ones, and another as the token alone
PreserveLastRuleWitness ==
    /\ pc = "done"
    /\ op = "_redact_spanwise"
    /\ \E i, j \in DOMAIN pieces :
          /\ pieces[i].ent > 0 /\ pieces[j].ent > 0
          /\ ConfiguredKeep(Visited[pieces[i].ent].type) = 1
          /\ pieces[i].to - pieces[i].from = 2
          /\ pieces[i].to <= Len(text.value)
          /\ text.value[pieces[i].from + 1] # text.value[pieces[i].to]
          /\ ConfiguredKeep(Visited[pieces[j].ent].type) <= 0
          /\ pieces[j].chars = replace_with

----------------------------------------------------------------------------
(* C19 *)

\* the positions of the text a piece stands for
PositionsOf(p) == p.from .. (p.to - 1)

\* no position of the text is copied or replaced twice, and no entity is
\* rendered twice
NoCharTwice ==
    /\ \A i, j \in DOMAIN pieces :
          i # j => PositionsOf(pieces[i]) \cap PositionsOf(pieces[j]) = {}
    /\ \A i, j \in DOMAIN pieces :
          (i # j /\ pieces[i].ent > 0) => pieces[i].ent # pieces[j].ent

\* one iteration: the cursor does not go back; an entity that ends at or
\* behind the cursor adds nothing; any other is rendered once, from the
\* cursor if it starts behind it
CursorStep ==
    (pc = "loop" /\ todo # <<>>) =>
        LET ent == Head(todo) IN
        /\ last' >= last
        /\ (ent.end <= last \/ ent.end <= ent.start) =>
              pieces' = pieces /\ last' = last
        /\ (ent.end > last /\ ent.end > ent.start) =>
              /\ Len(pieces') = Len(pieces) + 2
              /\ pieces'[Len(pieces')].ent > 0
              /\ pieces'[Len(pieces')].from =
                    (IF ent.start < last THEN last ELSE ent.start)
              /\ pieces'[Len(pieces')].to = ent.end
              /\ pieces'[Len(pieces') - 1].from = last
              /\ pieces'[Len(pieces') - 1].to = pieces'[Len(pieces')].from
              /\ last' = ent.end

\* C19: during _redact_spanwise the cursor never decreases and no character
\* of the text is emitted or replaced twice, for any entity list: an entity
\* that starts behind the cursor is clamped to it, one that lies behind it
\* is skipped, and an entity is rendered at most once.
CursorNeverGoesBack ==
    /\ [][last' >= last /\ CursorStep]_vars
    /\ [](op = "_redact_spanwise" => NoCharTwice)

\* a call on two overlapping entities: the second was rendered from the
\* cursor, not from its start
CursorNeverGoesBackWitness ==
    /\ pc = "done"
    /\ op = "_redact_spanwise"
    /\ Len(entities) = 2
    /\ \E i \in DOMAIN pieces :
          /\ pieces[i].ent = 2
          /\ pieces[i].from > Visited[2].start

----------------------------------------------------------------------------
(* C12 *)

\* the needle occurs in the text
Contains(hay, needle) ==
    \E i \in 0..(Len(hay) - Len(needle)) :
        \A j \in 1..Len(needle) : hay[i + j] = needle[j]

\* redact_pii was called, regex only, with the default token and
\* {"CREDIT_CARD": 4}, on the text "4111111111111111" and has returned
CardRedacted ==
    /\ pc = "done"
    /\ op = "redact_pii"
    /\ text = [type |-> "str", value |-> SampleCard]
    /\ ~AWS_COMPREHEND_ENABLED
    /\ ~_spacy_available
    /\ replace_with = _DEFAULT_REPLACEMENT
    /\ preserve_last_n = KeepCardDigits

\* C12: regex only, redacting "4111111111111111" with {"CREDIT_CARD": 4}
\* gives "[REDACTED]1111" in place of the number: the 16 digits are accepted
\* as one CREDIT_CARD entity.
\* Violated: PHONE matches the first 15 digits with 0.70, above the 0.60 of
\* CREDIT_CARD, so the report holds PHONE [0,15) and the text returned is
\* "[REDACTED]1".
CardKeepsLastFour ==
    CardRedacted =>
        /\ Contains(redacted, _DEFAULT_REPLACEMENT \o <<"1", "1", "1", "1">>)
        /\ \E k \in DOMAIN report.entities :
              /\ report.entities[k].type = "CREDIT_CARD"
              /\ report.entities[k].start = 0
              /\ report.entities[k].end = 16

----------------------------------------------------------------------------
(* C13 *)

\* the entity lies in the text and carries the characters of its span
InsideText(e, t) ==
    /\ 0 <= e.start
    /\ e.start < e.end
    /\ e.end <= Len(t)
    /\ e.text = RefChars(t, e.start, e.end)

\* C13: every entity of a report satisfies 0 <= start < end <= len(text) and
\* its text is text[start:end], whichever source produced it.
\* Violated: the offsets of a Comprehend entity are taken from the response
\* unchecked, so an entity that ends after the text is reported.
EntitiesInsideText ==
    (pc = "done" /\ op = "detect_pii" /\ raised = "") =>
        \A k \in DOMAIN report.entities :
            InsideText(report.entities[k], text.value)

----------------------------------------------------------------------------
(* C14 *)

\* the sum of the values of a mapping
RECURSIVE SumOf(_)
SumOf(f) ==
    IF DOMAIN f = {} THEN 0
    ELSE LET x == CHOOSE y \in DOMAIN f : TRUE
         IN  f[x] + SumOf([y \in DOMAIN f \ {x} |-> f[y]])

\* C14: in every report summary.total is the number of entities,
\* summary.counts[T] the number of entities of type T, for every type (a
\* type without entities has no count), the counts sum to the total, text
\* is the input and length its number of characters.
SummaryCountsEntities ==
    (pc = "done" /\ op = "detect_pii" /\ raised = "") =>
        LET ents == report.entities
            counts == report.summary.counts
        IN  /\ report.summary.total = Len(ents)
            /\ DOMAIN counts = { ents[k].type : k \in DOMAIN ents }
            /\ \A T \in DOMAIN counts :
                  counts[T] = Cardinality({ k \in DOMAIN ents : ents[k].type = T })
            /\ SumOf(counts) = report.summary.total
            /\ report.text = text.value
            /\ report.length = Len(text.value)

\* a report with two entities of one type and one of another, from a call
\* that rejected a candidate
SummaryCountsEntitiesWitness ==
    /\ pc = "done"
    /\ op = "detect_pii"
    /\ raised = ""
    /\ report.summary.total = 3
    /\ \E T \in DOMAIN report.summary.counts : report.summary.counts[T] = 2
    /\ Len(primary) + Len(secondary) > 3

----------------------------------------------------------------------------
(* C15 *)

\* the detectors that are configured are given the same responses
SameInputs(a, b) ==
    /\ a.arg = b.arg
    /\ AWS_COMPREHEND_ENABLED => a.cresp = b.cresp
    /\ _spacy_available => a.sresp = b.sresp

\* C15: two calls of detect_pii in one process with the same text, under the
\* same configuration and with the configured external detectors returning
\* the same candidates, end the same way and return identical reports, the
\* same entities in the same order, whatever calls were made in between.
DetectIsDeterministic ==
    \A i, j \in DOMAIN history :
        ( /\ i < j
          /\ history[i].op = "detect_pii"
          /\ history[j].op = "detect_pii"
          /\ SameInputs(history[i], history[j]) ) =>
            /\ history[i].raised = history[j].raised
            /\ history[i].report = history[j].report

\* a call that found a regex and a Comprehend entity, then a call with
\* another text where Comprehend failed, then the first call again
DetectIsDeterministicWitness ==
    /\ Len(history) = 3
    /\ AWS_COMPREHEND_ENABLED
    /\ history[1].op = "detect_pii"
    /\ history[3].op = "detect_pii"
    /\ SameInputs(history[1], history[3])
    /\ history[1].raised = ""
    /\ \E k \in DOMAIN history[3].report.entities :
          history[3].report.entities[k].source = "comprehend"
    /\ \E k \in DOMAIN history[3].report.entities :
          history[3].report.entities[k].source = "regex"
    /\ history[2].arg # history[1].arg
    /\ history[2].cresp.kind = "client_error"

----------------------------------------------------------------------------
(* C16 *)

\* detect_pii applied to the i-th text of the batch alone
AloneOn(i) ==
    detect_pii(texts[i], AWS_COMPREHEND_ENABLED, _spacy_available,
               batch_resp[i].cresp, batch_resp[i].sresp)

\* C16: detect_pii_batch returns one report per input text, in input order,
\* and the i-th report is the report of detect_pii applied to the i-th text
\* alone; the call returns whenever every text is a string.
BatchIsPerItem ==
    (pc = "done" /\ op = "detect_pii_batch") =>
        /\ (\A i \in DOMAIN texts : texts[i].type = "str") => raised = ""
        /\ raised = "" =>
              /\ Len(reports) = Len(texts)
              /\ \A i \in DOMAIN texts : reports[i] = AloneOn(i).report

\* a batch of two different texts with different reports, one with entities
\* of two sources
BatchIsPerItemWitness ==
    /\ pc = "done"
    /\ op = "detect_pii_batch"
    /\ raised = ""
    /\ Len(texts) = 2
    /\ texts[1] # texts[2]
    /\ reports[1] # reports[2]
    /\ Len(reports[1].entities) >= 2
    /\ \E k \in DOMAIN reports[1].entities :
          reports[1].entities[k].source = "comprehend"

----------------------------------------------------------------------------
(* C17 *)

\* C17: detect_pii on the empty string does not raise and returns a report
\* with length 0, no entities and summary.total 0, under every configuration
\* of the optional detectors and whatever they do.
EmptyTextEmptyReport ==
    (pc = "done" /\ op = "detect_pii" /\ text = NoText) =>
        /\ raised = ""
        /\ report.length = 0
        /\ report.entities = <<>>
        /\ report.summary.total = 0

----------------------------------------------------------------------------
(* C18 *)

\* the confidence the specification fixes for each type, in hundredths
FixedConfidence ==
    [ty \in {"EMAIL", "PHONE", "SSN", "CREDIT_CARD", "IP_ADDRESS", "URL",
             "US_DRIVER_LICENSE"} |->
        CASE ty = "EMAIL" -> 95
          [] ty = "PHONE" -> 70
          [] ty = "SSN" -> 98
          [] ty = "CREDIT_CARD" -> 60
          [] ty = "IP_ADDRESS" -> 90
          [] ty = "URL" -> 90
          [] ty = "US_DRIVER_LICENSE" -> 35]

\* C18: every candidate of the regex matchers has source "regex", one of the
\* seven types with the fixed confidence of that type and positive length,
\* and a regex entity of the report is one of the candidates, with that score.
RegexCandidatesFixed ==
    (pc = "done" /\ op \in {"detect_pii", "redact_pii"} /\ raised = "") =>
        /\ \A k \in DOMAIN primary :
              /\ primary[k].source = "regex"
              /\ primary[k].type \in DOMAIN FixedConfidence
              /\ primary[k].score = FixedConfidence[primary[k].type]
              /\ primary[k].start < primary[k].end
        /\ \A k \in DOMAIN report.entities :
              report.entities[k].source = "regex" =>
                  /\ \E c \in DOMAIN primary : primary[c] = report.entities[k]
                  /\ report.entities[k].score =
                         FixedConfidence[report.entities[k].type]

\* the card number: a phone and a card candidate, the phone one accepted at
\* 0.70 and the card one rejected
RegexCandidatesFixedWitness ==
    /\ pc = "done"
    /\ op = "detect_pii"
    /\ raised = ""
    /\ \E k \in DOMAIN primary : primary[k].type = "CREDIT_CARD"
    /\ \E k \in DOMAIN primary : primary[k].type = "PHONE"
    /\ \E k \in DOMAIN report.entities :
          /\ report.entities[k].source = "regex"
          /\ report.entities[k].type = "PHONE"
          /\ report.entities[k].score = 70
    /\ \A k \in DOMAIN report.entities : report.entities[k].type # "CREDIT_CARD"

----------------------------------------------------------------------------
(* C20 *)

\* the request was sent during the call
Sent(request) == \E k \in DOMAIN requests : requests[k] = request

\* the object has been downloaded
Downloaded == _BOTO3_AVAILABLE /\ record.valid /\ aws.get_object_failures < 3

\* the condition of the claim: the downloaded length is at most the
\* threshold, the override if one is given and MAX_REALTIME_BYTES if not, and
\* an endpoint is configured
SmallAndEndpoint ==
    /\ aws.object_len <=
          (IF use_realtime_threshold = None THEN MAX_REALTIME_BYTES
           ELSE use_realtime_threshold.value)
    /\ SAGEMAKER_ENDPOINT \notin {None, Some("")}

\* the batch path has what it needs
TransformConfigured ==
    /\ TRANSFORM_OUTPUT_BUCKET \notin {None, Some("")}
    /\ SAGEMAKER_TRANSFORM_ROLE \notin {None, Some("")}

RoutedToTransformWitness ==
    /\ pc = "done"
    /\ op = "process_s3_event_and_transcribe"
    /\ raised = ""
    /\ SAGEMAKER_ENDPOINT = Some("whisper-endpoint")
    /\ use_realtime_threshold = None
    /\ aws.object_len > MAX_REALTIME_BYTES
    /\ aws.create_failures = 1
    /\ result.mode = "transform"

----------------------------------------------------------------------------
(* C21 *)

----------------------------------------------------------------------------
(* C22 *)

\* the vector the first call of embed returned for the text
FirstEmbedOf(t) ==
    (CHOOSE k \in DOMAIN first_embed : first_embed[k].text = t)

\* embed was called on the text
Embedded(t) == \E k \in DOMAIN first_embed : first_embed[k].text = t

----------------------------------------------------------------------------
(* C23 *)

\* the last call was add with a window of n characters
AddedWithChunking ==
    vi_call # None /\ vi_call.op = "add" /\ vi_call.chunking # None

\* C23: add with chunking = n splits every text longer than n characters
\* into windows of n characters, each starting 20% of n after the previous
\* one, so that consecutive windows overlap by 80% of the window; a text of
\* at most n characters is added unchunked under its own id
ChunksOverlapEightyPercent ==
    AddedWithChunking =>
      LET n == vi_call.chunking.value
          e == vi_call.expanded
      IN  \A i \in DOMAIN e :
            IF Len(e[i].whole) > n
            THEN /\ "source" \in DOMAIN e[i].id
                 /\ (i + 1 \in DOMAIN e /\ e[i + 1].start > 0) =>
                       /\ Len(e[i].text) = n
                       /\ 10 * (e[i + 1].start - e[i].start) = 2 * n
            ELSE /\ "source" \notin DOMAIN e[i].id
                 /\ e[i].text = e[i].whole

----------------------------------------------------------------------------
(* C24 *)

\* the rows of a store, none when the store is None
RowsOf(store) == IF store = None THEN <<>> ELSE store.value

\* C24: ids, meta and the stored vectors are aligned after every call:
\* they have one length, and position i of each is the i-th item added
IdsMetaVectorsAligned ==
    /\ Len(vi_ids) = Len(vi_meta)
    /\ Len(vi_ids) = Len(added)
    /\ vi_vectors # None => Len(vi_vectors.value) = Len(vi_ids)
    /\ vi_faiss_index # None => Len(vi_faiss_index.value) = Len(vi_ids)
    /\ vi_ids # <<>> => (vi_vectors # None \/ vi_faiss_index # None)
    /\ \A i \in DOMAIN vi_ids :
         /\ vi_ids[i] = added[i].id
         /\ vi_meta[i] = added[i].meta
         /\ vi_vectors # None => vi_vectors.value[i] = added[i].vec
         /\ vi_faiss_index # None => vi_faiss_index.value[i] = added[i].vec

----------------------------------------------------------------------------
(* C25 *)

\* the last call was nearest_k, it returned, and it scanned the numpy rows
\* of an index that is not on faiss
ScannedNumpy ==
    /\ vi_call # None
    /\ vi_call.op = "nearest_k"
    /\ vi_call.raised = ""
    /\ ~vi_call.on_faiss

\* C25: nearest_k(query, k) on the numpy backend of an index of n vectors
\* returns min(k, n) results, of distinct rows, in non-increasing order of
\* similarity, no other row being more similar than a returned one, each
\* with the id and the meta at the position of its row
NearestKIsTopK ==
    ScannedNumpy =>
      LET rows == RowsOf(vi_vectors)
          out == vi_call.out
          top == vi_call.top_idx
          q == vi_call.qvec
      IN  /\ Len(out) = Smaller(vi_call.k, Len(rows))
          /\ Len(top) = Len(out)
          /\ \A i, j \in DOMAIN out :
                /\ i # j => top[i] # top[j]
                /\ i < j => ScoreGeq(out[i].score, out[j].score)
          /\ \A j \in DOMAIN out :
                /\ top[j] \in DOMAIN rows
                /\ top[j] \in DOMAIN vi_ids
                /\ top[j] \in DOMAIN vi_meta
                /\ out[j].score = Score(q, rows[top[j]])
                /\ out[j].id = Some(vi_ids[top[j]])
                /\ out[j].meta = vi_meta[top[j]]
                /\ \A i \in DOMAIN rows :
                      (\A h \in DOMAIN top : top[h] # i) =>
                        ScoreGeq(out[j].score, Score(q, rows[i]))

\* nearest_k returned the more similar of two rows and left out the less
\* similar one
NearestKIsTopKWitness ==
    /\ ScannedNumpy
    /\ Len(RowsOf(vi_vectors)) = 2
    /\ vi_call.k = 1
    /\ Len(vi_call.out) = 1
    /\ \E i \in 1..2 :
         ~ScoreGeq(Score(vi_call.qvec, RowsOf(vi_vectors)[i]), vi_call.out[1].score)

----------------------------------------------------------------------------
(* C26 *)

\* the request carried no file, or an empty one
NoFileOrEmpty(q) == IF q.file = None THEN TRUE ELSE q.file.value = <<>>

\* an object was uploaded for the n-th request
UploadedFor(n) == \E k \in DOMAIN s3_objects : s3_objects[k].request = n

\* a workflow was started for the n-th request
StartedFor(n) == \E k \in DOMAIN executions : executions[k].request = n

\* the response is 202 with a JSON object holding upload_id and s3_uri
Accepted(q) ==
    /\ q.status = 202
    /\ "upload_id" \in DOMAIN q.body
    /\ "s3_uri" \in DOMAIN q.body

----------------------------------------------------------------------------
(* C27 *)

\* the calls of f among the events
CallsOfF == SelectSeq(events, LAMBDA ev : ev.kind = "call")

\* the event is a call of f that raised an exception of a listed type
FailedListed(ev) == ev.kind = "call" /\ ev.outcome \in ListedExceptions

\* C27: with tries = T >= 1 the wrapped function is called at most T times;
\* it returns at the first call that returns, raises the exception of the
\* T-th call after T failures of a listed type, raises an exception of an
\* unlisted type at once, and sleeps only between two calls
RetryContract ==
    op = "retry" =>
      /\ Len(CallsOfF) =< retry_tries
      /\ \A i \in DOMAIN events :
           /\ (i < Len(events) /\ events[i].kind = "call") => FailedListed(events[i])
           /\ events[i].kind = "sleep" =>
                /\ i > 1
                /\ FailedListed(events[i - 1])
                /\ i < Len(events) => events[i + 1].kind = "call"
                /\ i = Len(events) => retry_out = None
      /\ retry_out # None =>
           LET final == events[Len(events)]
           IN  /\ final.kind = "call"
               /\ final.attempt = Len(CallsOfF)
               /\ IF final.outcome = "return"
                  THEN retry_out = [returned |-> final.attempt]
                  ELSE /\ retry_out = [raised |-> [type |-> final.outcome,
                                                   attempt |-> final.attempt]]
                       /\ final.outcome \in ListedExceptions =>
                            /\ Len(CallsOfF) = retry_tries
                            /\ last_exc = Some(retry_out.raised)
      /\ (retry_out = None /\ events # <<>>) => Len(CallsOfF) < retry_tries

\* three tries, all failing with a listed exception: two sleeps, and the
\* exception of the third call raised
RetryContractWitness ==
    /\ op = "retry"
    /\ retry_tries = 3
    /\ Len(events) = 5
    /\ retry_out = [raised |-> [type |-> "ClientError", attempt |-> 3]]

----------------------------------------------------------------------------
(* Vocabulary of the properties of step_fn_handlers.py *)

\* an invocation of wait_for_transform_callback has passed the checks of its event
Waiting ==
    /\ op = "stepfn"
    /\ IF sf_event = None THEN FALSE
       ELSE /\ sf_event.value.action = "wait_for_transform_callback"
            /\ sf_event.value.taskToken
            /\ \/ sf_event.value.expected_s3_prefix # ""
               \/ sf_event.value.expected_sagemaker_transform_job_name

\* the handler has returned
Returned == sf_pc = "done" /\ "returned" \in DOMAIN sf_out

\* the handler has raised
Raised == sf_pc = "done" /\ "raised" \in DOMAIN sf_out

\* the wait has returned with this reason
ReturnedReason(reason) ==
    Waiting /\ Returned /\ ~sf_out.returned.ok /\ sf_out.returned.reason = reason

\* the callbacks that were delivered
Delivered == SelectSeq(callbacks, LAMBDA cb : cb.delivered)

TokenChecked ==
    /\ op = "stepfn"
    /\ IF sf_event = None THEN FALSE
       ELSE /\ sf_event.value.action = "wait_for_transform_callback"
            /\ sf_event.value.taskToken

\* a task failure was attempted
FailureAttempted == \E i \in DOMAIN callbacks : callbacks[i].kind = "failure"

\* when the wait has returned, one callback was delivered and it is of the
\* kind of the result
OneCallbackPerReturn ==
    (TokenChecked /\ Returned) =>
        /\ Len(Delivered) = 1
        /\ Delivered[1].kind = IF sf_out.returned.ok THEN "success" ELSE "failure"
        /\ Delivered[1] = callbacks[Len(callbacks)]

\* C29: when wait_for_transform_callback has returned, exactly one callback
\* was delivered for the token, a success for ok True and a failure for ok
\* False; when it has raised after the token check, a task failure was
\* attempted
WaitCallsBackOnEveryPath ==
    /\ OneCallbackPerReturn
    /\ (TokenChecked /\ Raised) => FailureAttempted

\* aggregate_results was invoked with a task token
AggregatedWithToken ==
    /\ op = "stepfn"
    /\ IF sf_event = None THEN FALSE
       ELSE /\ sf_event.value.action = "aggregate_results"
            /\ sf_event.value.taskToken

\* a task success was attempted
SuccessAttempted == \E i \in DOMAIN callbacks : callbacks[i].kind = "success"

\* C30: aggregate_results invoked with a task token has attempted a task
\* success when it has returned and a task failure when it has raised, also
\* for empty s3_keys and for a missing run_id or bucket
AggregateCallsBackOnEveryPath ==
    /\ (AggregatedWithToken /\ Returned) => SuccessAttempted
    /\ (AggregatedWithToken /\ Raised) => FailureAttempted

============================================================================
